---- MODULE Spec2Model ----
(***************************************************************************)
(* Session-confirmation workflow of the financial mail agent:              *)
(* session_manager.py (SessionState / SessionManager),                     *)
(* email_processor.py (process_emails_with_session, save_confirmed_data,   *)
(* confirm_and_save_session, save_to_database), customer_support.py        *)
(* (the tool wrappers and confirm_email_data), database_service.py         *)
(* (insert_financial_email) and permission_controller.py.                  *)
(*                                                                         *)
(* A Python dict is a function whose domain is the set of its keys, a      *)
(* list is a sequence, None is the string "None".  A field of a            *)
(* financial_info dict is a record field; "field in financial_info" is     *)
(* membership in DOMAIN.  An ordered dict handed in as `modifications` is  *)
(* a sequence of <<field, value>> pairs.                                   *)
(***************************************************************************)
EXTENDS Integers, Sequences, FiniteSets, TLC

VARIABLES
    loggerBound,        \* is the name `logger` bound in email_processor's globals
    roles_permissions,  \* PermissionController.roles_permissions
    sessions,           \* SessionManager.sessions: session_id -> SessionState
    store,              \* table financial_emails: its rows in order of insertion
    now,                \* datetime.now(), as a logical clock
    pc,                 \* position of the process request in flight
    gatewayCalls,       \* records handed to insert_financial_email by the last operation
    result,             \* what the last operation returned (or that it raised)
    cache,              \* ExchangeRateService.cache: cache_key -> rate
    cache_expiry,       \* ExchangeRateService.cache_expiry: cache_key -> time
    call,               \* a library function under call: its arguments, then its return
    session_files,      \* the snapshot directory: session_id -> pickled session and mtime
    conn,               \* DatabaseService.conn of each service instance
    connection_pool,    \* DatabaseService._connection_pool (class variable)
    tools,              \* ToolManager.tools: name -> ToolInfo
    categories          \* ToolManager.categories: category -> list of names

vars == <<loggerBound, roles_permissions, sessions, store, now, pc, gatewayCalls, result,
          cache, cache_expiry, call, session_files, conn, connection_pool, tools,
          categories>>

(***************************************************************************)
(* Bounds                                                                  *)
(***************************************************************************)
MaxTime == 1
MaxHistory == 1
MaxLog == 2

None == "None"

SessionIds == {"s1"}
Accounts == {"acct"}

\* The mailbox: message ids in the order the search returns them.
Mailbox == <<"A", "B">>
EmailIds == {Mailbox[i] : i \in 1..Len(Mailbox)}

\* What the extraction pass produces for a message (deterministic per message).
ExtractedInfo(id) ==
    IF id = "A" THEN [amount |-> 100, usd_amount |-> 100]
                ELSE [amount |-> 200, usd_amount |-> 200]

ParsedEmail(id) == [id |-> id, financial_info |-> ExtractedInfo(id)]

\* Values a user may put in a modification, and the field names used.
ModValues == {500, 700}
\* modifications=None is [given |-> FALSE]; a dict is its items in order.
ModificationDicts ==
    {<<>>}
      \cup {<<<<"amount", v>>>> : v \in ModValues}
      \cup {<<<<"note", v>>>> : v \in {500}}
      \cup {<<<<"amount", v>>, <<"note", v>>>> : v \in {500}}
ModificationInputs ==
    {[given |-> FALSE, items |-> <<>>]}
      \cup {[given |-> TRUE, items |-> d] : d \in ModificationDicts}

(***************************************************************************)
(* permission_controller.py                                                *)
(***************************************************************************)
\* A user id is a sequence of tokens; its first token is its prefix.
default_user == <<"default_user">>

default_permissions ==
    [user   |-> {"read_emails", "process_emails", "access_database",
                 "access_financial_data", "access_exchange_rates", "use_llm_analysis"},
     admin  |-> {"read_emails", "process_emails", "access_database", "modify_data",
                 "access_financial_data", "administer_system",
                 "access_exchange_rates", "use_llm_analysis"},
     system |-> {"read_emails", "process_emails", "access_database", "modify_data",
                 "access_financial_data", "administer_system",
                 "access_exchange_rates", "use_llm_analysis"}]

\* A permissions.json edited by the deployer that also lets role user modify data.
file_permissions ==
    [default_permissions EXCEPT !.user = @ \cup {"modify_data"}]

PermissionTables == {default_permissions, file_permissions}

get_user_role(user_id) ==
    IF user_id[1] = "admin_" THEN "admin"
    ELSE IF user_id[1] = "system_" THEN "system"
    ELSE "user"

has_permission(table, role, permission) == permission \in table[role]

\* check_user_permission as it would be if nothing were ever denied.
check_user_permission_open(table, user_id, permission) == TRUE

check_user_permission(table, user_id, permission) ==
    has_permission(table, get_user_role(user_id), permission)

(***************************************************************************)
(* session_manager.py                                                      *)
(***************************************************************************)
EmptyDict == [k \in {} |-> None]

SessionState(t) ==
    [current_state         |-> "idle",
     current_email_account |-> None,
     processed_emails      |-> <<>>,
     modified_data         |-> EmptyDict,
     confirmation_status   |-> EmptyDict,
     modification_history  |-> <<>>,
     last_update           |-> t]

\* get_session: create on first reference, then refresh last_update.
get_session(ss, sid, t) ==
    IF sid \in DOMAIN ss
      THEN [ss EXCEPT ![sid].last_update = t]
      ELSE [k \in DOMAIN ss \cup {sid} |->
               IF k = sid THEN SessionState(t) ELSE ss[k]]

update_session_state(ss, sid, state, t) ==
    [get_session(ss, sid, t) EXCEPT ![sid].current_state = state]

set_email_account(ss, sid, account, t) ==
    [get_session(ss, sid, t) EXCEPT ![sid].current_email_account = account]

store_processed_emails(ss, sid, emails, t) ==
    [get_session(ss, sid, t) EXCEPT ![sid].processed_emails = emails]

\* dict[key] = value
DictSet(d, key, value) ==
    [k \in DOMAIN d \cup {key} |-> IF k = key THEN value ELSE d[k]]

\* dict.get(key, default)
DictGet(d, key, default) == IF key \in DOMAIN d THEN d[key] ELSE default

set_confirmation(ss, sid, email_id, confirmed, t) ==
    LET s1 == get_session(ss, sid, t)
    IN  [s1 EXCEPT ![sid].confirmation_status = DictSet(@, email_id, confirmed)]

\* add_modification as it would be if the log kept only the latest entry.
add_modification_latest_only(ss, sid, email_id, field, old_value, new_value, t) ==
    LET s1  == get_session(ss, sid, t)
        md  == s1[sid].modified_data
        cur == DictGet(md, email_id, EmptyDict)
        modification == [timestamp |-> t, email_id |-> email_id, field |-> field,
                         old_value |-> old_value, new_value |-> new_value]
    IN  [s1 EXCEPT ![sid].modified_data = DictSet(md, email_id, DictSet(cur, field, new_value)),
                   ![sid].modification_history = <<modification>>]

add_modification(ss, sid, email_id, field, old_value, new_value, t) ==
    LET s1  == get_session(ss, sid, t)
        md  == s1[sid].modified_data
        cur == DictGet(md, email_id, EmptyDict)
        modification == [timestamp |-> t, email_id |-> email_id, field |-> field,
                         old_value |-> old_value, new_value |-> new_value]
    IN  [s1 EXCEPT ![sid].modified_data = DictSet(md, email_id, DictSet(cur, field, new_value)),
                   ![sid].modification_history = Append(@, modification)]

(***************************************************************************)
(* database_service.py                                                     *)
(***************************************************************************)
\* What the database does to one logical operation.
DbOutcomes == {"ok", "connect_fail", "exec_fail", "rollback_fail"}

\* The row written for a record: email_id and the columns taken from
\* financial_info.
Row(email_data) ==
    [email_id        |-> email_data.id,
     original_amount |-> email_data.financial_info.amount,
     usd_amount      |-> email_data.financial_info.usd_amount]

\* The email_id values of the rows of the table.
stored_ids(rows) == {rows[i].email_id : i \in 1..Len(rows)}

\* The statement as a plain INSERT into a table without the UNIQUE constraint.
insert_plain(rows, row) == Append(rows, row)

\* INSERT ... ON CONFLICT (email_id) DO UPDATE SET ...: the row that holds
\* the email_id is overwritten in place, a new email_id is appended.
insert_on_conflict_update(rows, row) ==
    IF row.email_id \in stored_ids(rows)
      THEN [i \in 1..Len(rows) |->
              IF rows[i].email_id = row.email_id THEN row ELSE rows[i]]
      ELSE Append(rows, row)

\* A record the statement cannot be built from: email_data['id'] raises
\* KeyError inside the try block.
malformed(email_data) == "id" \notin DOMAIN email_data

\* insert_financial_email: ret is "true", "false" or "raise".
insert_financial_email(table, user_id, st, email_data, outcome) ==
    IF ~check_user_permission(table, user_id, "modify_data")
      THEN [ret |-> "false", store |-> st]
    ELSE IF outcome = "connect_fail"
      THEN [ret |-> "false", store |-> st]
    ELSE IF outcome = "rollback_fail"
      THEN [ret |-> "raise", store |-> st]   \* conn.rollback() raised in the handler
    ELSE IF malformed(email_data) \/ outcome = "exec_fail"
      THEN [ret |-> "false", store |-> st]
      ELSE [ret |-> "true", store |-> insert_on_conflict_update(st, Row(email_data))]

\* DatabaseService.__init__ runs _ensure_table, whose except-handler calls
\* conn.rollback() outside any try: "ok" (also when the table could not be
\* ensured) or "raise".
EnsureOutcomes == {"ok", "rollback_fail"}
DatabaseService_init(outcome) ==
    IF outcome = "rollback_fail" THEN "raise" ELSE "ok"

(***************************************************************************)
(* Text: a str is a sequence of one-character strings                      *)
(***************************************************************************)
LowerLetters == <<"a", "b", "c", "d", "e", "f", "g", "h", "i", "j", "k", "l", "m",
                  "n", "o", "p", "q", "r", "s", "t", "u", "v", "w", "x", "y", "z">>
UpperLetters == <<"A", "B", "C", "D", "E", "F", "G", "H", "I", "J", "K", "L", "M",
                  "N", "O", "P", "Q", "R", "S", "T", "U", "V", "W", "X", "Y", "Z">>

\* The upper-case / lower-case form of each letter.
UpperOf ==
    [ch \in {LowerLetters[k] : k \in 1..Len(LowerLetters)} |->
        UpperLetters[CHOOSE k \in 1..Len(LowerLetters) : LowerLetters[k] = ch]]
LowerOf ==
    [ch \in {UpperLetters[k] : k \in 1..Len(UpperLetters)} |->
        LowerLetters[CHOOSE k \in 1..Len(UpperLetters) : UpperLetters[k] = ch]]

\* str.upper() and str.lower(), character by character.
upper(str) == [i \in 1..Len(str) |-> DictGet(UpperOf, str[i], str[i])]

lower(str) == [i \in 1..Len(str) |-> DictGet(LowerOf, str[i], str[i])]

\* `sub in str`
contains(str, sub) ==
    \E i \in 0..(Len(str) - Len(sub)) : SubSeq(str, i + 1, i + Len(sub)) = sub

USD == <<"U", "S", "D">>
EUR == <<"E", "U", "R">>
CNY == <<"C", "N", "Y">>
XYZ == <<"X", "Y", "Z">>

(***************************************************************************)
(* exchange_service.py.  A rate is an integer number of 1/Scale; None of   *)
(* an Optional number is NoneNum.                                          *)
(***************************************************************************)
Scale == 100
NoneNum == -1
Hour == 1

\* What one upstream rate source does with a request: it fails, it answers
\* with a rate, or its answer has no entry for the target currency.
ApiOutcomes == {[kind |-> "fail", rate |-> NoneNum],
                [kind |-> "rate", rate |-> 90],
                [kind |-> "absent", rate |-> NoneNum]}

\* The second source is asked only when the first one failed.
ApiPairs ==
    {<<a1, a2>> \in ApiOutcomes \X ApiOutcomes : a1.kind # "fail" => a2.kind = "fail"}

\* _try_exchangerate_api / _try_frankfurter_api: Decimal(str(rates.get(to, 1))).
try_api(outcome) ==
    IF outcome.kind = "rate" THEN outcome.rate
    ELSE IF outcome.kind = "absent" THEN Scale
    ELSE NoneNum

\* The static table of _try_fallback_rates (the entries the model uses).
fallback_rates == [c \in {EUR, CNY} |-> IF c = EUR THEN 110 ELSE 14]

try_fallback_rates(from_currency, to_currency) ==
    IF upper(to_currency) = USD
      THEN DictGet(fallback_rates, upper(from_currency), NoneNum)
      ELSE LET usd_from_rate == DictGet(fallback_rates, upper(from_currency), NoneNum)
               usd_to_rate   == DictGet(fallback_rates, upper(to_currency), NoneNum)
           IN  IF usd_from_rate # NoneNum /\ usd_to_rate # NoneNum
                 THEN (usd_from_rate * Scale) \div usd_to_rate
                 ELSE NoneNum

\* _is_cache_valid as it would be if an entry never expired.
is_cache_valid_unexpiring(c, ce, cache_key, t) ==
    /\ cache_key \in DOMAIN c
    /\ cache_key \in DOMAIN ce

\* _is_cache_valid
is_cache_valid(c, ce, cache_key, t) ==
    /\ cache_key \in DOMAIN c
    /\ cache_key \in DOMAIN ce
    /\ t < ce[cache_key]

\* get_exchange_rate as it would be if the two codes were compared as given.
get_exchange_rate_case_sensitive(c, ce, t, from_currency, to_currency, api1, api2) ==
    LET cache_key == <<from_currency, to_currency>>
        r1 == try_api(api1)
        r2 == IF r1 = NoneNum THEN try_api(api2) ELSE r1
        r3 == IF r2 = NoneNum THEN try_fallback_rates(from_currency, to_currency) ELSE r2
        contacted == <<"exchangerate_api">>
                       \o (IF r1 = NoneNum THEN <<"frankfurter_api">> ELSE <<>>)
                       \o (IF r2 = NoneNum THEN <<"fallback_rates">> ELSE <<>>)
    IN  IF from_currency = to_currency
          THEN [ret |-> Scale, cache |-> c, cache_expiry |-> ce,
                contacted |-> <<>>, cache_read |-> FALSE]
        ELSE IF is_cache_valid(c, ce, cache_key, t)
          THEN [ret |-> c[cache_key], cache |-> c, cache_expiry |-> ce,
                contacted |-> <<>>, cache_read |-> TRUE]
        ELSE IF r3 # NoneNum
          THEN [ret |-> r3, cache |-> DictSet(c, cache_key, r3),
                cache_expiry |-> DictSet(ce, cache_key, t + Hour),
                contacted |-> contacted, cache_read |-> TRUE]
          ELSE [ret |-> NoneNum, cache |-> c, cache_expiry |-> ce,
                contacted |-> contacted, cache_read |-> TRUE]

\* get_exchange_rate: ret, the cache after the call, the sources contacted
\* in order, and whether the cache was read.
get_exchange_rate(c, ce, t, from_currency, to_currency, api1, api2) ==
    LET cache_key == <<from_currency, to_currency>>
        r1 == try_api(api1)
        r2 == IF r1 = NoneNum THEN try_api(api2) ELSE r1
        r3 == IF r2 = NoneNum THEN try_fallback_rates(from_currency, to_currency) ELSE r2
        contacted == <<"exchangerate_api">>
                       \o (IF r1 = NoneNum THEN <<"frankfurter_api">> ELSE <<>>)
                       \o (IF r2 = NoneNum THEN <<"fallback_rates">> ELSE <<>>)
    IN  IF upper(from_currency) = upper(to_currency)
          THEN [ret |-> Scale, cache |-> c, cache_expiry |-> ce,
                contacted |-> <<>>, cache_read |-> FALSE]
        ELSE IF is_cache_valid(c, ce, cache_key, t)
          THEN [ret |-> c[cache_key], cache |-> c, cache_expiry |-> ce,
                contacted |-> <<>>, cache_read |-> TRUE]
        ELSE IF r3 # NoneNum
          THEN [ret |-> r3, cache |-> DictSet(c, cache_key, r3),
                cache_expiry |-> DictSet(ce, cache_key, t + Hour),
                contacted |-> contacted, cache_read |-> TRUE]
          ELSE [ret |-> NoneNum, cache |-> c, cache_expiry |-> ce,
                contacted |-> contacted, cache_read |-> TRUE]

\* convert_amount: amount * rate, None when no rate could be had.
convert_amount(c, ce, t, amount, from_currency, to_currency, api1, api2) ==
    LET converted(r) ==
            [ret |-> IF r.ret # NoneNum THEN (amount * r.ret) \div Scale ELSE NoneNum,
             cache |-> r.cache, cache_expiry |-> r.cache_expiry,
             contacted |-> r.contacted, cache_read |-> r.cache_read]
    IN  converted(get_exchange_rate(c, ce, t, upper(from_currency), upper(to_currency),
                                    api1, api2))

(***************************************************************************)
(* email_processor.py                                                      *)
(***************************************************************************)
\* EmailProcessor.__init__ builds DatabaseService(use_mcp=...) for default_user.
EmailProcessor_init(outcome) == DatabaseService_init(outcome)

\* authenticate_gmail_for_account: "true", "false" or "raise".  Both the
\* success path and the except-handler call logger, a name the module never
\* binds: unbound, the handler itself raises NameError.
authenticate_gmail_for_account(bound, credentialsOk) ==
    IF ~bound THEN "raise"
    ELSE IF credentialsOk THEN "true"
    ELSE "false"

\* Sub-sequences of the mailbox: the messages one search can return.
RECURSIVE SubSeqs(_)
SubSeqs(q) ==
    IF q = <<>> THEN {<<>>}
    ELSE LET rest == SubSeqs(Tail(q))
         IN  rest \cup {<<Head(q)>> \o r : r \in rest}

SearchOutcomes ==
    {[kind |-> "found", ids |-> q] : q \in SubSeqs(Mailbox)}
      \cup {[kind |-> "http_error", ids |-> <<>>], [kind |-> "exception", ids |-> <<>>]}

\* search_emails: HttpError is swallowed into [], any other exception escapes.
search_emails(outcome) ==
    IF outcome.kind = "exception" THEN [ret |-> "raise", emails |-> <<>>]
    ELSE IF outcome.kind = "http_error" THEN [ret |-> "list", emails |-> <<>>]
    ELSE [ret |-> "list",
          emails |-> [i \in 1..Len(outcome.ids) |-> ParsedEmail(outcome.ids[i])]]

\* save_to_database: fold insert_financial_email over data[i..]; a raise of
\* one insert ends the loop.  calls = the records handed to the gateway,
\* rets = what each of these calls returned.
RECURSIVE save_to_database(_, _, _, _, _)
save_to_database(table, st, data, outcomes, i) ==
    IF i > Len(data)
      THEN [ret |-> "int", success_count |-> 0, store |-> st, calls |-> <<>>,
            rets |-> <<>>]
      ELSE LET r == insert_financial_email(table, default_user, st, data[i], outcomes[i])
           IN  IF r.ret = "raise"
                 THEN [ret |-> "raise", success_count |-> 0, store |-> r.store,
                       calls |-> <<data[i]>>, rets |-> <<r.ret>>]
                 ELSE LET rest == save_to_database(table, r.store, data, outcomes, i + 1)
                      IN  [ret |-> rest.ret,
                           success_count |-> rest.success_count
                                               + (IF r.ret = "true" THEN 1 ELSE 0),
                           store |-> rest.store,
                           calls |-> <<data[i]>> \o rest.calls,
                           rets |-> <<r.ret>> \o rest.rets]

\* The overlay loop of save_confirmed_data on one financial_info dict:
\* for field, value in modified_data[email_id].items(): if field in info: info[field] = value
Overlay(financial_info, mods) ==
    [f \in DOMAIN financial_info |->
        IF f \in DOMAIN mods THEN mods[f] ELSE financial_info[f]]

\* One pass of the loop of save_confirmed_data over an email: the email as it
\* is left in session.processed_emails (the overlay writes into the very dict
\* the session holds).
OverlaidEmail(session, email) ==
    IF DictGet(session.confirmation_status, email.id, FALSE)
         /\ email.id \in DOMAIN session.modified_data
      THEN [email EXCEPT !.financial_info = Overlay(@, session.modified_data[email.id])]
      ELSE email

RECURSIVE SelectSeq2(_, _, _)
SelectSeq2(q, keep, i) ==
    IF i > Len(q) THEN <<>>
    ELSE (IF keep[i] THEN <<q[i]>> ELSE <<>>) \o SelectSeq2(q, keep, i + 1)

\* save_confirmed_data as it would be if the confirmation test were dropped.
confirmed_emails_of_unchecked(session) ==
    [processed_emails |-> session.processed_emails,
     confirmed_emails |-> session.processed_emails]

\* save_confirmed_data up to the database call: the session after the
\* overlay and the list confirmed_emails.
confirmed_emails_of(session) ==
    LET emails == [i \in 1..Len(session.processed_emails) |->
                      OverlaidEmail(session, session.processed_emails[i])]
        keep   == [i \in 1..Len(session.processed_emails) |->
                      DictGet(session.confirmation_status,
                              session.processed_emails[i].id, FALSE)]
    IN  [processed_emails |-> emails,
         confirmed_emails |-> SelectSeq2(emails, keep, 1)]

(***************************************************************************)
(* email_processor.py: extraction.  A subject is a sequence of words, each *)
(* a str; a body is a sequence of fragments, each the text one pattern of  *)
(* the extractor matches (or plain text).  Amounts are integers (cents),   *)
(* None of an Optional number is NoneNum, None of an Optional str is "".   *)
(***************************************************************************)
MaxSubjectWords == 2
MaxBodyLen == 2

NoStr == <<>>

SubjectWords == {<<"I", "n", "v", "o", "i", "c", "e">>, <<"B", "I", "L", "L", "I", "N", "G">>, <<"H", "e", "l", "l", "o">>, <<"f", "r", "o", "m">>}

RECURSIVE SeqsUpTo(_, _)
SeqsUpTo(S, n) ==
    IF n = 0 THEN {<<>>}
    ELSE LET shorter == SeqsUpTo(S, n - 1)
         IN  shorter \cup {Append(q, x) : q \in shorter, x \in S}

Subjects == SeqsUpTo(SubjectWords, MaxSubjectWords)

\* The subject as one str: its words with a blank between them.
RECURSIVE Join(_)
Join(words) ==
    IF words = <<>> THEN <<>>
    ELSE IF Len(words) = 1 THEN words[1]
    ELSE words[1] \o <<" ">> \o Join(Tail(words))

\* Fragments of a body.  pattern is the index in amount_patterns of the
\* pattern that matches an amount fragment (1 `$`, 4 `EUR`, 6 `CNY`,
\* 8 `total:`), the index of the phrase group of _identify_status for a
\* status fragment, and 0 otherwise; value is the amount in cents.
Fragment(kind, pattern, value) == [kind |-> kind, pattern |-> pattern, value |-> value]

BodyFragments ==
    {Fragment("amount", 1, 0), Fragment("amount", 1, 12000), Fragment("amount", 4, 8000),
     Fragment("status", 2, 0), Fragment("address", 0, 0), Fragment("due_date", 0, 0),
     Fragment("text", 0, 0)}

Bodies == SeqsUpTo(BodyFragments, MaxBodyLen)

financial_keywords ==
    <<<<"i", "n", "v", "o", "i", "c", "e">>, <<"o", "r", "d", "e", "r">>, <<"s", "t", "a", "t", "e", "m", "e", "n", "t">>, <<"p", "a", "y", "m", "e", "n", "t">>, <<"b", "i", "l", "l">>, <<"r", "e", "c", "e", "i", "p", "t">>>>

\* _identify_document_type
identify_document_type(subject) ==
    LET subject_lower == lower(Join(subject))
    IN  IF contains(subject_lower, financial_keywords[1]) THEN "invoice"
        ELSE IF contains(subject_lower, financial_keywords[2]) THEN "order"
        ELSE IF contains(subject_lower, financial_keywords[3]) THEN "statement"
        ELSE "other"

\* _identify_status: the first phrase group (1 paid, 2 due, 3 to pay) that
\* has a phrase in the body; the literal of the last branch otherwise.
identify_status(body) ==
    LET groups == {body[i].pattern : i \in {j \in 1..Len(body) : body[j].kind = "status"}}
    IN  IF 1 \in groups THEN "payment_completed"
        ELSE IF 2 \in groups THEN "receivable"
        ELSE IF 3 \in groups THEN "payable"
        ELSE "other"

\* _extract_counterparty: the company patterns on the subject (two words in
\* a row satisfy the last of them), then an address in the body, then the
\* literal 'Unknown'.
extract_counterparty(subject, body) ==
    IF Len(subject) >= 2 THEN "subject_match"
    ELSE IF \E i \in 1..Len(body) : body[i].kind = "address" THEN "body_address"
    ELSE "Unknown"

\* _extract_amount_and_currency: the first pattern of amount_patterns, in
\* list order, that matches somewhere in the body; its first match.
extract_amount_and_currency(body) ==
    LET hits == {i \in 1..Len(body) : body[i].kind = "amount"}
    IN  IF hits = {} THEN [amount |-> NoneNum, currency |-> NoStr]
        ELSE LET k == CHOOSE k \in {body[i].pattern : i \in hits} :
                         \A i \in hits : k <= body[i].pattern
                 i == CHOOSE i \in hits :
                         /\ body[i].pattern = k
                         /\ \A j \in hits : body[j].pattern = k => i <= j
             IN  [amount   |-> body[i].value,
                  currency |-> IF k \in {3, 4} THEN EUR
                               ELSE IF k \in {5, 6} THEN CNY
                               ELSE USD]

\* _extract_dates: the date types found, {} when none.
extract_dates(body) ==
    IF \E i \in 1..Len(body) : body[i].kind = "due_date"
      THEN {"due_date", "issue_date"}
      ELSE {}

\* Python truth of an Optional number / a str / a dict.
TruthyNum(x) == x # NoneNum /\ x # 0
TruthyStr(x) == x # NoStr
TruthyLabel(x) == x # ""

\* A financial_info dict (and an analysis result of the LLM analyzer, which
\* has the same keys that matter here); confidence is in tenths.  NoRecord
\* is the return value None.
Record(type, status, counterparty, amount, currency, usd_amount, exchange_rate, dates, confidence, analysis_method) ==
    [is_none |-> FALSE, type |-> type, status |-> status, counterparty |-> counterparty,
     amount |-> amount, currency |-> currency, usd_amount |-> usd_amount,
     exchange_rate |-> exchange_rate, dates |-> dates, confidence |-> confidence,
     analysis_method |-> analysis_method]

NoRecord ==
    [Record("", "", "", NoneNum, NoStr, NoneNum, NoneNum, {}, 0, "") EXCEPT !.is_none = TRUE]

\* _extract_with_rules.  ret is the record or NoRecord; conversions counts
\* the calls of the currency client, failed those that returned None.
extract_with_rules(c, ce, t, subject, body, api1, api2) ==
    LET both(amount, currency) == TruthyNum(amount) /\ TruthyStr(currency)
        foreign(amount, currency) == both(amount, currency) /\ upper(currency) # USD
        record(amount, currency, usd_amount, status, counterparty, dates) ==
            IF TruthyNum(amount) \/ TruthyLabel(status) \/ TruthyLabel(counterparty)
                 \/ dates # {}
              THEN Record(identify_document_type(subject), status, counterparty,
                          amount, currency,
                          IF TruthyNum(usd_amount) THEN usd_amount ELSE NoneNum,
                          IF foreign(amount, currency)
                            THEN (IF TruthyNum(usd_amount)
                                    THEN (usd_amount * Scale) \div amount
                                    ELSE NoneNum)
                          ELSE IF both(amount, currency) THEN Scale
                          ELSE NoneNum,
                          dates, 3, "rule_based")
              ELSE NoRecord
        converting(ac, conv) ==
            [ret |-> record(ac.amount, ac.currency, conv.ret, identify_status(body),
                            extract_counterparty(subject, body), extract_dates(body)),
             cache |-> conv.cache, cache_expiry |-> conv.cache_expiry,
             conversions |-> 1,
             failed |-> IF conv.ret = NoneNum THEN 1 ELSE 0]
        plain(ac) ==
            [ret |-> record(ac.amount, ac.currency,
                            IF both(ac.amount, ac.currency) THEN ac.amount ELSE NoneNum,
                            identify_status(body), extract_counterparty(subject, body),
                            extract_dates(body)),
             cache |-> c, cache_expiry |-> ce, conversions |-> 0, failed |-> 0]
        with(ac) ==
            IF foreign(ac.amount, ac.currency)
              THEN converting(ac, convert_amount(c, ce, t, ac.amount, ac.currency, USD,
                                                 api1, api2))
              ELSE plain(ac)
    IN  with(extract_amount_and_currency(body))

(***************************************************************************)
(* llm_email_analyzer.py                                                   *)
(***************************************************************************)
\* What the model call does: it raises, or it answers with a JSON object.
LlmAnswer(amount, currency, usd_amount, exchange_rate, confidence) ==
    [kind |-> "json", amount |-> amount, currency |-> currency,
     usd_amount |-> usd_amount, exchange_rate |-> exchange_rate,
     confidence |-> confidence]

LlmOutcomes ==
    {[LlmAnswer(NoneNum, NoStr, NoneNum, NoneNum, 0) EXCEPT !.kind = "raise"]}
      \cup {LlmAnswer(a, cur, u[1], u[2], conf) :
                a \in {NoneNum, 0, 12000}, cur \in {NoStr, lower(USD), EUR},
                u \in {<<NoneNum, NoneNum>>, <<7700, 5>>}, conf \in {5, 9}}

\* What building the fallback meets: the local import works and
\* EmailProcessor() is built, the import fails, or the constructor raises.
FallbackOutcomes == {"ok", "import_error", "constructor_raises"}

valid_currencies == {USD, EUR, CNY}

\* _validate_currency
validate_currency(currency) ==
    IF ~TruthyStr(currency) THEN NoStr
    ELSE IF upper(currency) \in valid_currencies THEN upper(currency)
    ELSE NoStr

\* _validate_analysis_result
validate_analysis_result(answer, subject) ==
    Record(identify_document_type(subject), "other",
           extract_counterparty(subject, <<>>),
           answer.amount, validate_currency(answer.currency),
           answer.usd_amount, answer.exchange_rate, {},
           answer.confidence, "llm")

\* _simple_rule_based_analysis: the `$` pattern only.
simple_rule_based_analysis(subject, body) ==
    LET hits   == {i \in 1..Len(body) : body[i].kind = "amount" /\ body[i].pattern = 1}
        amount == IF hits = {} THEN NoneNum
                  ELSE body[CHOOSE i \in hits : \A j \in hits : i <= j].value
    IN  Record(identify_document_type(subject), "other", "Unknown",
               amount,
               IF TruthyNum(amount) THEN USD ELSE NoStr,
               amount,
               IF TruthyNum(amount) THEN Scale ELSE NoneNum,
               {}, 2, "simple_rule_based")

\* _fallback_rule_based_analysis: raised is TRUE when EmailProcessor()
\* raises (only ImportError is caught there).
fallback_rule_based_analysis(subject, body, fallback) ==
    IF fallback = "constructor_raises" THEN [raised |-> TRUE, ret |-> NoRecord]
    ELSE IF fallback = "import_error"
      THEN [raised |-> FALSE, ret |-> simple_rule_based_analysis(subject, body)]
      ELSE LET ac == extract_amount_and_currency(body)
           IN  [raised |-> FALSE,
                ret |-> Record(identify_document_type(subject), identify_status(body),
                               extract_counterparty(subject, body),
                               ac.amount, ac.currency, NoneNum, NoneNum, {},
                               3, "rule_based")]

\* LLMEmailAnalyzer.analyze_email_with_llm
analyze_email_with_llm(subject, body, llm, fallback) ==
    IF llm.kind = "raise"
      THEN fallback_rule_based_analysis(subject, body, fallback)
      ELSE [raised |-> FALSE, ret |-> validate_analysis_result(llm, subject)]

(***************************************************************************)
(* email_processor.py: the LLM path and the pipeline                       *)
(***************************************************************************)
\* _analyze_with_llm: the analysis, completed by the currency client.
analyze_with_llm(c, ce, t, subject, body, llm, fallback, api1, api2) ==
    LET both(r)    == TruthyNum(r.amount) /\ TruthyStr(r.currency)
        foreign(r) == both(r) /\ upper(r.currency) # USD
        converting(r, conv) ==
            [ret |-> IF TruthyNum(conv.ret)
                       THEN [r EXCEPT !.usd_amount = conv.ret,
                                      !.exchange_rate = (conv.ret * Scale) \div r.amount]
                       ELSE r,
             cache |-> conv.cache, cache_expiry |-> conv.cache_expiry,
             conversions |-> 1, failed |-> IF conv.ret = NoneNum THEN 1 ELSE 0]
        completed(a) ==
            IF a.raised
              THEN [ret |-> [NoRecord EXCEPT !.is_none = FALSE,
                                             !.analysis_method = "rule_based_fallback"],
                    cache |-> c, cache_expiry |-> ce, conversions |-> 0, failed |-> 0]
            ELSE IF foreign(a.ret)
              THEN converting(a.ret, convert_amount(c, ce, t, a.ret.amount, a.ret.currency,
                                                    USD, api1, api2))
            ELSE IF both(a.ret)
              THEN [ret |-> [a.ret EXCEPT !.usd_amount = a.ret.amount,
                                          !.exchange_rate = Scale],
                    cache |-> c, cache_expiry |-> ce, conversions |-> 0, failed |-> 0]
              ELSE [ret |-> a.ret, cache |-> c, cache_expiry |-> ce, conversions |-> 0,
                    failed |-> 0]
    IN  completed(analyze_email_with_llm(subject, body, llm, fallback))

\* The subject gate as it would be without the keyword test.
passes_gate_open(subject) == subject # <<>>

\* The subject gate of _extract_financial_info.
passes_gate(subject) ==
    LET subject_lower == lower(Join(subject))
    IN  \E k \in 1..Len(financial_keywords) : contains(subject_lower, financial_keywords[k])

\* _extract_financial_info: gate, LLM analysis, then the LLM record when
\* its confidence is above 0.7 and the rule-based record otherwise.
extract_financial_info(c, ce, t, subject, body, llm, fallback, api1, api2) ==
    LET by_rules(l, x) ==
            [ret |-> x.ret, cache |-> x.cache, cache_expiry |-> x.cache_expiry,
             conversions |-> l.conversions + x.conversions,
             failed |-> l.failed + x.failed, llm_invoked |-> TRUE]
        chosen(l) ==
            IF l.ret.confidence > 7
              THEN [ret |-> l.ret, cache |-> l.cache, cache_expiry |-> l.cache_expiry,
                    conversions |-> l.conversions, failed |-> l.failed,
                    llm_invoked |-> TRUE]
              ELSE by_rules(l, extract_with_rules(l.cache, l.cache_expiry, t, subject, body,
                                                  api1, api2))
    IN  IF ~passes_gate(subject)
          THEN [ret |-> NoRecord, cache |-> c, cache_expiry |-> ce,
                conversions |-> 0, failed |-> 0, llm_invoked |-> FALSE]
          ELSE chosen(analyze_with_llm(c, ce, t, subject, body, llm, fallback, api1, api2))

(***************************************************************************)
(* Results of operations                                                   *)
(***************************************************************************)
\* saved_count / total_confirmed are -1 where the payload has no such key;
\* found is the list the search of a completed pass returned.
Result(op, sid, status) ==
    [op |-> op, session_id |-> sid, status |-> status,
     saved_count |-> -1, total_confirmed |-> -1, found |-> <<>>]

NoResult == Result("none", None, "none")

Idle == [step |-> "idle", session_id |-> None, email_account |-> None]

\* No library function has been called.
NoCall == [op |-> "none"]

\* The service instances: one built with use_mcp=False, one with use_mcp=True.
Instances == {"direct", "mcp"}

\* self.conn = None in every instance; _connection_pool = None.  A
\* connection is "none", "pooled" (taken with getconn) or "own"
\* (psycopg2.connect).
NoConnections == [i \in Instances |-> "none"]

NoPool == [exists |-> FALSE, used |-> 0]

TypeOK ==
    /\ loggerBound \in BOOLEAN
    /\ roles_permissions \in PermissionTables
    /\ DOMAIN sessions \subseteq SessionIds
    /\ stored_ids(store) \subseteq EmailIds
    /\ now \in 0..MaxTime
    /\ pc.step \in {"idle", "authenticate", "search"}

Init ==
    /\ loggerBound \in BOOLEAN
    /\ roles_permissions \in PermissionTables
    /\ sessions = EmptyDict
    /\ store = <<>>
    /\ now = 0
    /\ pc = Idle
    /\ gatewayCalls = <<>>
    /\ result = NoResult
    /\ cache = EmptyDict
    /\ cache_expiry = EmptyDict
    /\ call = NoCall
    /\ session_files = EmptyDict
    /\ conn = NoConnections
    /\ connection_pool = NoPool
    /\ tools = EmptyDict
    /\ categories = EmptyDict

Tick ==
    /\ now < MaxTime
    /\ now' = now + 1
    /\ UNCHANGED <<session_files, conn, connection_pool, tools, categories, cache, cache_expiry, call, loggerBound, roles_permissions, sessions, store, pc, gatewayCalls, result>>

(***************************************************************************)
(* process_emails_with_session, in the three places where it can stop      *)
(***************************************************************************)
\* Lines 499-503: state := processing, the account is recorded if given.
ProcessBegin(sid, email_account) ==
    /\ pc.step = "idle"
    /\ LET s1 == update_session_state(sessions, sid, "processing", now)
       IN  sessions' = IF email_account # None
                         THEN set_email_account(s1, sid, email_account, now)
                         ELSE s1
    /\ pc' = [step |-> "authenticate", session_id |-> sid, email_account |-> email_account]
    /\ gatewayCalls' = <<>>
    /\ result' = Result("process", sid, "running")
    /\ UNCHANGED <<session_files, conn, connection_pool, tools, categories, cache, cache_expiry, call, loggerBound, roles_permissions, store, now>>

\* Lines 505-513: build the processor and authenticate.
ProcessAuthenticate(dbOutcome, credentialsOk) ==
    /\ pc.step = "authenticate"
    /\ LET sid  == pc.session_id
           ctor == EmailProcessor_init(dbOutcome)
           auth == authenticate_gmail_for_account(loggerBound, credentialsOk)
       IN  IF ctor = "raise" \/ auth = "raise"
             THEN /\ sessions' = sessions
                  /\ pc' = Idle
                  /\ result' = Result("process", sid, "raised")
           ELSE IF auth = "false"
             THEN /\ sessions' = update_session_state(sessions, sid, "error", now)
                  /\ pc' = Idle
                  /\ result' = Result("process", sid, "error")
             ELSE /\ sessions' = sessions
                  /\ pc' = [pc EXCEPT !.step = "search"]
                  /\ result' = result
    /\ UNCHANGED <<session_files, conn, connection_pool, tools, categories, cache, cache_expiry, call, loggerBound, roles_permissions, store, now, gatewayCalls>>

\* Lines 515-554: search, then completed (nothing found) or store and review.
ProcessSearch(outcome) ==
    /\ pc.step = "search"
    /\ LET sid == pc.session_id
           r   == search_emails(outcome)
       IN  IF r.ret = "raise"
             THEN /\ sessions' = sessions
                  /\ result' = Result("process", sid, "raised")
           ELSE IF r.emails = <<>>
             THEN /\ sessions' = update_session_state(sessions, sid, "completed", now)
                  /\ result' = [Result("process", sid, "no_emails") EXCEPT !.found = r.emails]
             ELSE /\ sessions' = update_session_state(
                                   store_processed_emails(sessions, sid, r.emails, now),
                                   sid, "review", now)
                  /\ result' = [Result("process", sid, "success") EXCEPT !.found = r.emails]
    /\ pc' = Idle
    /\ UNCHANGED <<session_files, conn, connection_pool, tools, categories, cache, cache_expiry, call, loggerBound, roles_permissions, store, now, gatewayCalls>>

(***************************************************************************)
(* customer_support.py: confirm_email_data                                 *)
(***************************************************************************)
\* for field, new_value in modifications.items(): if field in financial_info: add_modification(...)
RECURSIVE ModifyFields(_, _, _, _, _, _, _)
ModifyFields(ss, sid, email_id, financial_info, modifications, i, t) ==
    IF i > Len(modifications) THEN ss
    ELSE LET field     == modifications[i][1]
             new_value == modifications[i][2]
             s1 == IF field \in DOMAIN financial_info
                     THEN add_modification(ss, sid, email_id, field,
                                           financial_info[field], new_value, t)
                     ELSE ss
         IN  ModifyFields(s1, sid, email_id, financial_info, modifications, i + 1, t)

\* for email in session.processed_emails: if email.get('id') == email_id: ...
RECURSIVE ModifyEmails(_, _, _, _, _, _, _)
ModifyEmails(ss, sid, email_id, emails, modifications, i, t) ==
    IF i > Len(emails) THEN ss
    ELSE LET s1 == IF emails[i].id = email_id
                     THEN ModifyFields(ss, sid, email_id, emails[i].financial_info,
                                       modifications, 1, t)
                     ELSE ss
         IN  ModifyEmails(s1, sid, email_id, emails, modifications, i + 1, t)

confirm_email_data(ss, sid, email_id, confirmed, modifications, t) ==
    LET s1 == set_confirmation(ss, sid, email_id, confirmed, t)
    IN  IF modifications.given /\ modifications.items # <<>>
          THEN ModifyEmails(get_session(s1, sid, t), sid, email_id,
                            s1[sid].processed_emails, modifications.items, 1, t)
          ELSE s1

\* The tool call; cap bounds the length the history may reach.
ConfirmEmailDataWithin(sid, email_id, confirmed, modifications, cap) ==
    /\ pc.step = "idle"
    /\ LET s1 == confirm_email_data(sessions, sid, email_id, confirmed, modifications, now)
       IN  /\ Len(s1[sid].modification_history) <= cap
           /\ sessions' = s1
    /\ gatewayCalls' = <<>>
    /\ result' = Result("confirm", sid, "success")
    /\ UNCHANGED <<session_files, conn, connection_pool, tools, categories, cache, cache_expiry, call, loggerBound, roles_permissions, store, now, pc>>

ConfirmEmailData(sid, email_id, confirmed, modifications) ==
    ConfirmEmailDataWithin(sid, email_id, confirmed, modifications, MaxHistory)

(***************************************************************************)
(* email_processor.py: confirm_and_save_session                            *)
(***************************************************************************)
ConfirmAndSaveSession(sid, dbOutcome, outcomes) ==
    /\ pc.step = "idle"
    /\ LET s1   == get_session(sessions, sid, now)
           ctor == EmailProcessor_init(dbOutcome)
           sc   == confirmed_emails_of(s1[sid])
           s2   == [s1 EXCEPT ![sid].processed_emails = sc.processed_emails]
           db   == save_to_database(roles_permissions, store, sc.confirmed_emails, outcomes, 1)
       IN  IF s1[sid].processed_emails = <<>>
             THEN /\ sessions' = s1
                  /\ store' = store
                  /\ gatewayCalls' = <<>>
                  /\ result' = Result("save", sid, "error")
           ELSE IF ctor = "raise"
             THEN /\ sessions' = s1
                  /\ store' = store
                  /\ gatewayCalls' = <<>>
                  /\ result' = Result("save", sid, "raised")
           ELSE IF sc.confirmed_emails = <<>>
             THEN /\ sessions' = s2
                  /\ store' = store
                  /\ gatewayCalls' = <<>>
                  /\ result' = Result("save", sid, "no_data")
           ELSE IF db.ret = "raise"
             THEN /\ sessions' = s2
                  /\ store' = db.store
                  /\ gatewayCalls' = db.calls
                  /\ result' = Result("save", sid, "raised")
             ELSE /\ sessions' = update_session_state(s2, sid, "completed", now)
                  /\ store' = db.store
                  /\ gatewayCalls' = db.calls
                  /\ result' = [Result("save", sid, "success") EXCEPT
                                   !.saved_count = db.success_count,
                                   !.total_confirmed = Len(sc.confirmed_emails)]
    /\ UNCHANGED <<session_files, conn, connection_pool, tools, categories, cache, cache_expiry, call, loggerBound, roles_permissions, now, pc>>

(***************************************************************************)
(* customer_support.py: the tool wrappers of process and save              *)
(***************************************************************************)
\* The boundary every tool draws round its body,
\*   try: ... return result   except Exception as e: return {"error": ...}
\* as it would be without the except clause.
tool_boundary_open(body) == body

tool_boundary(body) ==
    IF body.status = "raised" THEN [body EXCEPT !.status = "error"] ELSE body

\* process_financial_emails_tool: EmailProcessor(user_id=user_id) names a
\* parameter the constructor does not have: TypeError inside the try.
ProcessFinancialEmailsTool ==
    /\ pc.step = "idle"
    /\ gatewayCalls' = <<>>
    /\ result' = tool_boundary(Result("process_financial_emails_tool", None, "raised"))
    /\ UNCHANGED <<session_files, conn, connection_pool, tools, categories, cache, cache_expiry, call, loggerBound, roles_permissions, sessions, store, now, pc>>

\* process_emails_interactive hands four arguments to the three-parameter
\* process_emails_with_session: the call raises TypeError before the body
\* runs, and the wrapper turns it into an error payload.
ProcessEmailsInteractive(sid) ==
    /\ pc.step = "idle"
    /\ gatewayCalls' = <<>>
    /\ result' = tool_boundary(Result("process_emails_interactive", sid, "raised"))
    /\ UNCHANGED <<session_files, conn, connection_pool, tools, categories, cache, cache_expiry, call, loggerBound, roles_permissions, sessions, store, now, pc>>

\* confirm_email_data with an email_id that cannot be a dict key (a JSON
\* list or object): set_confirmation has fetched the session when the
\* assignment confirmation_status[email_id] = confirmed raises TypeError.
ConfirmEmailDataUnhashable(sid) ==
    /\ pc.step = "idle"
    /\ sessions' = get_session(sessions, sid, now)
    /\ gatewayCalls' = <<>>
    /\ result' = tool_boundary(Result("confirm", sid, "raised"))
    /\ UNCHANGED <<session_files, conn, connection_pool, tools, categories, cache, cache_expiry, call, loggerBound, roles_permissions, store, now, pc>>

\* save_confirmed_data (the tool) hands two arguments to the one-parameter
\* confirm_and_save_session: TypeError, turned into an error payload.
SaveConfirmedDataTool(sid) ==
    /\ pc.step = "idle"
    /\ gatewayCalls' = <<>>
    /\ result' = tool_boundary(Result("save_confirmed_data", sid, "raised"))
    /\ UNCHANGED <<session_files, conn, connection_pool, tools, categories, cache, cache_expiry, call, loggerBound, roles_permissions, sessions, store, now, pc>>

\* get_financial_email_summary: DatabaseService(user_id=user_id) may raise
\* out of _ensure_table; get_summary_stats and get_financial_emails return
\* {} / [] on their own failures.
GetFinancialEmailSummary(dbOutcome) ==
    /\ pc.step = "idle"
    /\ gatewayCalls' = <<>>
    /\ result' = tool_boundary(
                    Result("get_financial_email_summary", None,
                           IF DatabaseService_init(dbOutcome) = "raise"
                             THEN "raised" ELSE "success"))
    /\ UNCHANGED <<session_files, conn, connection_pool, tools, categories, cache, cache_expiry, call, loggerBound, roles_permissions, sessions, store, now, pc>>

\* analyze_email_with_llm (the tool): analyze_email_content_llm builds an
\* LLMEmailAnalyzer, whose constructor may raise, and returns its analysis.
AnalyzeEmailWithLlmTool(analyzerOk) ==
    /\ pc.step = "idle"
    /\ gatewayCalls' = <<>>
    /\ result' = tool_boundary(
                    Result("analyze_email_with_llm", None,
                           IF analyzerOk THEN "success" ELSE "raised"))
    /\ UNCHANGED <<session_files, conn, connection_pool, tools, categories, cache, cache_expiry, call, loggerBound, roles_permissions, sessions, store, now, pc>>

\* The inputs of a save that can matter: the constructor's outcome if the
\* session has candidates, one database outcome per confirmed record.
SaveInputs(sid) ==
    LET s1 == get_session(sessions, sid, now)
        n  == Len(confirmed_emails_of(s1[sid]).confirmed_emails)
    IN  {[ctor |-> c, outcomes |-> o] :
            c \in (IF s1[sid].processed_emails = <<>> THEN {"ok"} ELSE EnsureOutcomes),
            o \in [1..n -> DbOutcomes]}

Next ==
    \/ \E sid \in SessionIds, a \in Accounts \cup {None} : ProcessBegin(sid, a)
    \/ \E o \in EnsureOutcomes, c \in BOOLEAN : ProcessAuthenticate(o, c)
    \/ \E o \in SearchOutcomes : ProcessSearch(o)
    \/ \E sid \in SessionIds, e \in EmailIds, c \in BOOLEAN, m \in ModificationInputs :
           ConfirmEmailData(sid, e, c, m)
    \/ \E sid \in SessionIds : \E i \in SaveInputs(sid) :
           ConfirmAndSaveSession(sid, i.ctor, i.outcomes)

\* The operations as the hosting agent reaches them: the tools.
ToolNext ==
    \/ Tick
    \/ \E sid \in SessionIds, e \in EmailIds, c \in BOOLEAN, m \in ModificationInputs :
           ConfirmEmailData(sid, e, c, m)
    \/ \E sid \in SessionIds : ConfirmEmailDataUnhashable(sid)
    \/ ProcessFinancialEmailsTool
    \/ \E sid \in SessionIds : ProcessEmailsInteractive(sid)
    \/ \E sid \in SessionIds : SaveConfirmedDataTool(sid)
    \/ \E o \in EnsureOutcomes : GetFinancialEmailSummary(o)
    \/ \E ok \in BOOLEAN : AnalyzeEmailWithLlmTool(ok)

Spec == Init /\ [][Next]_vars

\* The same operations with time passing between them.
ClockNext ==
    \/ Tick
    \/ Next

ClockSpec == Init /\ [][ClockNext]_vars

ToolSpec == Init /\ [][ToolNext]_vars

\* The workflow against healthy collaborators (logger bound, database and
\* mailbox answering) under the permission table the code ships, with room
\* for a longer modification history.
LogInit ==
    /\ Init
    /\ loggerBound = TRUE
    /\ roles_permissions = default_permissions

LogNext ==
    \/ \E sid \in SessionIds : ProcessBegin(sid, None)
    \/ \E c \in BOOLEAN : ProcessAuthenticate("ok", c)
    \/ \E o \in SearchOutcomes : o.kind = "found" /\ ProcessSearch(o)
    \/ \E sid \in SessionIds, e \in EmailIds, c \in BOOLEAN, m \in ModificationInputs :
           ConfirmEmailDataWithin(sid, e, c, m, MaxLog)
    \/ \E sid \in SessionIds :
           ConfirmAndSaveSession(sid, "ok",
               [i \in 1..Len(confirmed_emails_of(get_session(sessions, sid, now)[sid]).confirmed_emails)
                   |-> "ok"])

LogSpec == LogInit /\ [][LogNext]_vars

(***************************************************************************)
(* exchange_service.py: get_exchange_rate on one ExchangeRateService       *)
(***************************************************************************)
\* The (from, to) pairs asked for.
RatePairs ==
    {<<USD, USD>>, <<lower(USD), USD>>, <<EUR, lower(EUR)>>,
     <<EUR, USD>>, <<XYZ, USD>>}

GetExchangeRate(from_currency, to_currency, api1, api2) ==
    /\ LET r == get_exchange_rate(cache, cache_expiry, now,
                                  from_currency, to_currency, api1, api2)
       IN  /\ cache' = r.cache
           /\ cache_expiry' = r.cache_expiry
           /\ call' = [op |-> "get_exchange_rate",
                       from_currency |-> from_currency, to_currency |-> to_currency,
                       api1 |-> api1, api2 |-> api2,
                       ret |-> r.ret, contacted |-> r.contacted,
                       cache_read |-> r.cache_read]
    /\ UNCHANGED <<session_files, conn, connection_pool, tools, categories, loggerBound, roles_permissions, sessions, store, now, pc,
                   gatewayCalls, result>>

RateTick ==
    /\ now < MaxTime + Hour
    /\ now' = now + 1
    /\ UNCHANGED <<session_files, conn, connection_pool, tools, categories, cache, cache_expiry, call, loggerBound, roles_permissions,
                   sessions, store, pc, gatewayCalls, result>>

RateNext ==
    \/ RateTick
    \/ \E p \in RatePairs, api \in ApiPairs :
           GetExchangeRate(p[1], p[2], api[1], api[2])

RateSpec == Init /\ [][RateNext]_vars

(***************************************************************************)
(* The extraction functions, each applied once to an input                 *)
(***************************************************************************)
\* A call that has not returned: the function and the email it is given.
Pending(op, subject, body) ==
    [op |-> op, subject |-> subject, body |-> body, done |-> FALSE,
     ret |-> NoRecord, raised |-> FALSE, llm_raised |-> FALSE,
     conversions |-> 0, failed |-> 0, llm_invoked |-> FALSE]

\* The bodies handed to the pipeline and to the analyzer: one fragment at most.
ShortBodies == SeqsUpTo(BodyFragments, 1)

ExtractCalls ==
    {Pending("extract_financial_info", sub, b) : sub \in Subjects, b \in ShortBodies}
      \cup {Pending("extract_with_rules", sub, b) :
                sub \in {q \in Subjects : passes_gate(q)}, b \in Bodies}
      \cup {Pending("analyze_email_with_llm", sub, b) :
                sub \in {q \in Subjects : Len(q) <= 1}, b \in ShortBodies}

ExtractInit ==
    /\ loggerBound = TRUE
    /\ roles_permissions = default_permissions
    /\ sessions = EmptyDict
    /\ store = <<>>
    /\ now = 0
    /\ pc = Idle
    /\ gatewayCalls = <<>>
    /\ result = NoResult
    /\ cache = EmptyDict
    /\ cache_expiry = EmptyDict
    /\ call \in ExtractCalls
    /\ session_files = EmptyDict
    /\ conn = NoConnections
    /\ connection_pool = NoPool
    /\ tools = EmptyDict
    /\ categories = EmptyDict

ExtractFinancialInfo(llm, fallback, api1, api2) ==
    /\ call.op = "extract_financial_info"
    /\ ~call.done
    /\ LET returns(r) ==
               /\ cache' = r.cache
               /\ cache_expiry' = r.cache_expiry
               /\ call' = [call EXCEPT !.done = TRUE, !.ret = r.ret,
                                       !.llm_raised = (r.llm_invoked /\ llm.kind = "raise"),
                                       !.conversions = r.conversions, !.failed = r.failed,
                                       !.llm_invoked = r.llm_invoked]
       IN  returns(extract_financial_info(cache, cache_expiry, now, call.subject,
                                          call.body, llm, fallback, api1, api2))
    /\ UNCHANGED <<session_files, conn, connection_pool, tools, categories, loggerBound, roles_permissions, sessions, store, now, pc,
                   gatewayCalls, result>>

ExtractWithRules(api1, api2) ==
    /\ call.op = "extract_with_rules"
    /\ ~call.done
    /\ LET returns(r) ==
               /\ cache' = r.cache
               /\ cache_expiry' = r.cache_expiry
               /\ call' = [call EXCEPT !.done = TRUE, !.ret = r.ret,
                                       !.conversions = r.conversions, !.failed = r.failed]
       IN  returns(extract_with_rules(cache, cache_expiry, now, call.subject, call.body,
                                      api1, api2))
    /\ UNCHANGED <<session_files, conn, connection_pool, tools, categories, loggerBound, roles_permissions, sessions, store, now, pc,
                   gatewayCalls, result>>

AnalyzeEmailWithLlm(llm, fallback) ==
    /\ call.op = "analyze_email_with_llm"
    /\ ~call.done
    /\ LET r == analyze_email_with_llm(call.subject, call.body, llm, fallback)
       IN  call' = [call EXCEPT !.done = TRUE, !.ret = r.ret, !.raised = r.raised,
                               !.llm_raised = (llm.kind = "raise"),
                               !.llm_invoked = TRUE]
    /\ UNCHANGED <<session_files, conn, connection_pool, tools, categories, cache, cache_expiry, loggerBound, roles_permissions, sessions, store,
                   now, pc, gatewayCalls, result>>

\* The fallback is built only when the model call raised.
LlmPairs ==
    {<<llm, f>> \in LlmOutcomes \X FallbackOutcomes : llm.kind # "raise" => f = "ok"}

ExtractNext ==
    \/ \E lf \in LlmPairs, api \in ApiPairs :
           ExtractFinancialInfo(lf[1], lf[2], api[1], api[2])
    \/ \E api \in ApiPairs : ExtractWithRules(api[1], api[2])
    \/ \E lf \in LlmPairs : AnalyzeEmailWithLlm(lf[1], lf[2])

ExtractSpec == ExtractInit /\ [][ExtractNext]_vars

(***************************************************************************)
(* The persistence gateway, called directly                                *)
(***************************************************************************)
\* The number of upserts of one behaviour.
MaxUpserts == 2

\* The records handed to insert_financial_email: two amounts for each
\* email_id, and a dict without the key 'id'.
UpsertRecords ==
    {[id |-> id, financial_info |-> [amount |-> a, usd_amount |-> a]] :
         id \in EmailIds, a \in {100, 500}}
      \cup {[financial_info |-> [amount |-> 100, usd_amount |-> 100]]}

\* The log of the gateway: each record with what its upsert returned.
Logged(calls, rets) == [k \in 1..Len(calls) |-> [email_data |-> calls[k], ret |-> rets[k]]]

UpsertInit ==
    /\ loggerBound = TRUE
    /\ roles_permissions \in PermissionTables
    /\ sessions = EmptyDict
    /\ store = <<>>
    /\ now = 0
    /\ pc = Idle
    /\ gatewayCalls = <<>>
    /\ result = NoResult
    /\ cache = EmptyDict
    /\ cache_expiry = EmptyDict
    /\ call = NoCall
    /\ session_files = EmptyDict
    /\ conn = NoConnections
    /\ connection_pool = NoPool
    /\ tools = EmptyDict
    /\ categories = EmptyDict

\* The user ids a DatabaseService is built for.
UserIds == {default_user, <<"user_", "7">>, <<"admin_", "7">>, <<"system_", "7">>}

\* One call of insert_financial_email on the service of user_id.
InsertFinancialEmail(user_id, email_data, outcome) ==
    /\ Len(gatewayCalls) < MaxUpserts
    /\ LET returns(r) ==
               /\ store' = r.store
               /\ gatewayCalls' = Append(gatewayCalls, [email_data |-> email_data, ret |-> r.ret])
               /\ call' = [op |-> "insert_financial_email", data |-> <<email_data>>,
                           ret |-> r.ret, rets |-> <<r.ret>>, success_count |-> -1,
                           user_id |-> user_id, outcomes |-> <<outcome>>]
       IN  returns(insert_financial_email(roles_permissions, user_id, store,
                                          email_data, outcome))
    /\ UNCHANGED <<session_files, conn, connection_pool, tools, categories, cache, cache_expiry, loggerBound, roles_permissions, sessions, now, pc,
                   result>>

\* One call of save_to_database on a list of two records
\* (batch_insert_financial_emails is the same loop).
SaveToDatabase(data, outcomes) ==
    /\ Len(gatewayCalls) + Len(data) <= MaxUpserts
    /\ LET returns(r) ==
               /\ store' = r.store
               /\ gatewayCalls' = gatewayCalls \o Logged(r.calls, r.rets)
               /\ call' = [op |-> "save_to_database", data |-> data, ret |-> r.ret,
                           rets |-> r.rets, success_count |-> r.success_count,
                           user_id |-> default_user, outcomes |-> outcomes]
       IN  returns(save_to_database(roles_permissions, store, data, outcomes, 1))
    /\ UNCHANGED <<session_files, conn, connection_pool, tools, categories, cache, cache_expiry, loggerBound, roles_permissions, sessions, now, pc,
                   result>>

UpsertNext ==
    \/ \E user_id \in UserIds, email_data \in UpsertRecords, outcome \in DbOutcomes :
           InsertFinancialEmail(user_id, email_data, outcome)
    \/ \E d1 \in UpsertRecords, d2 \in UpsertRecords, o1 \in DbOutcomes, o2 \in DbOutcomes :
           SaveToDatabase(<<d1, d2>>, <<o1, o2>>)

UpsertSpec == UpsertInit /\ [][UpsertNext]_vars

(***************************************************************************)
(* session_manager.py: expiry of sessions                                  *)
(***************************************************************************)
\* The inactivity timeout in ticks of the clock: hours=24 of
\* cleanup_old_sessions and timeout_hours=24 of is_expired.
DefaultTimeout == 2

\* The timeouts cleanup_old_sessions is called with.
TimeoutChoices == {1, DefaultTimeout}

\* del dict[key] for every key of keys
DictDel(d, keys) == [k \in DOMAIN d \ keys |-> d[k]]

\* (now - session.last_update).total_seconds() > hours * 3600
inactive_longer_than(session, hours, t) == t - session.last_update > hours

\* cleanup_old_sessions of src/session_manager.py: the expired sessions
\* are cleared from the map.
cleanup_old_sessions(ss, hours, t) ==
    DictDel(ss, {sid \in DOMAIN ss : inactive_longer_than(ss[sid], hours, t)})

SessionTick ==
    /\ now < MaxTime + DefaultTimeout + 1
    /\ now' = now + 1
    /\ UNCHANGED <<session_files, conn, connection_pool, tools, categories, cache,
                   cache_expiry, call, loggerBound, roles_permissions, sessions, store,
                   pc, gatewayCalls, result>>

\* session_manager.set_confirmation(session_id, email_id, True)
SetConfirmation(sid, email_id) ==
    /\ sessions' = set_confirmation(sessions, sid, email_id, TRUE, now)
    /\ call' = [op |-> "set_confirmation", session_id |-> sid, hours |-> 0]
    /\ UNCHANGED <<session_files, conn, connection_pool, tools, categories, cache,
                   cache_expiry, loggerBound, roles_permissions, store, now, pc,
                   gatewayCalls, result>>

\* session_manager.get_session(session_id)
GetSession(sid) ==
    /\ sessions' = get_session(sessions, sid, now)
    /\ call' = [op |-> "get_session", session_id |-> sid, hours |-> 0]
    /\ UNCHANGED <<session_files, conn, connection_pool, tools, categories, cache,
                   cache_expiry, loggerBound, roles_permissions, store, now, pc,
                   gatewayCalls, result>>

\* session_manager.cleanup_old_sessions(hours)
CleanupOldSessions(hours) ==
    /\ sessions' = cleanup_old_sessions(sessions, hours, now)
    /\ call' = [op |-> "cleanup_old_sessions", session_id |-> None, hours |-> hours]
    /\ UNCHANGED <<session_files, conn, connection_pool, tools, categories, cache,
                   cache_expiry, loggerBound, roles_permissions, store, now, pc,
                   gatewayCalls, result>>

SessionNext ==
    \/ SessionTick
    \/ \E sid \in SessionIds, e \in EmailIds : SetConfirmation(sid, e)
    \/ \E sid \in SessionIds : GetSession(sid)
    \/ \E hours \in TimeoutChoices : CleanupOldSessions(hours)

SessionSpec == Init /\ [][SessionNext]_vars

(***************************************************************************)
(* src/utils/session_manager.py: the manager that keeps snapshots on disk  *)
(***************************************************************************)
\* SessionState.is_expired(timeout_hours=24)
is_expired(session, t) == t - session.last_update > DefaultTimeout

\* SessionState.save_to_file: the pickle is written (mtime = now) unless
\* the write fails.
save_to_file(files, sid, session, t, ok) ==
    IF ok THEN DictSet(files, sid, [data |-> session, mtime |-> t]) ELSE files

\* SessionState.load_from_file: found is FALSE for None; a file whose
\* session is expired is removed.
load_from_file(files, sid, t) ==
    IF sid \notin DOMAIN files
      THEN [found |-> FALSE, session |-> SessionState(t), files |-> files]
    ELSE IF is_expired(files[sid].data, t)
      THEN [found |-> FALSE, session |-> SessionState(t), files |-> DictDel(files, {sid})]
      ELSE [found |-> TRUE, session |-> files[sid].data, files |-> files]

\* get_session of the utils manager: memory, then the file, then a new
\* session; last_update is refreshed in every case.
utils_get_session(ss, files, sid, t) ==
    LET loaded(l) ==
            [sessions |-> DictSet(ss, sid, [l.session EXCEPT !.last_update = t]),
             files    |-> l.files]
    IN  IF sid \in DOMAIN ss
          THEN [sessions |-> [ss EXCEPT ![sid].last_update = t], files |-> files]
          ELSE loaded(load_from_file(files, sid, t))

\* set_confirmation of the utils manager
utils_set_confirmation(ss, files, sid, email_id, confirmed, t) ==
    LET confirmed_in(g) ==
            [sessions |-> [g.sessions EXCEPT ![sid].confirmation_status =
                               DictSet(@, email_id, confirmed)],
             files    |-> g.files]
    IN  confirmed_in(utils_get_session(ss, files, sid, t))

\* save_all_sessions: every session of the map is written.
save_all_sessions(ss, files, t, ok) ==
    [sid \in DOMAIN files \cup (IF ok THEN DOMAIN ss ELSE {}) |->
        IF sid \in DOMAIN ss THEN save_to_file(files, sid, ss[sid], t, ok)[sid]
        ELSE files[sid]]

\* cleanup_old_sessions of the utils manager: save all, clear the expired
\* sessions from the map, remove the files whose mtime is older than hours
\* (nothing is removed when listing the directory fails).
utils_cleanup_old_sessions(ss, files, hours, t, saveOk, listOk) ==
    LET swept(saved) ==
            IF listOk
              THEN DictDel(saved, {sid \in DOMAIN saved : t - saved[sid].mtime > hours})
              ELSE saved
    IN  [sessions |-> cleanup_old_sessions(ss, hours, t),
         files    |-> swept(save_all_sessions(ss, files, t, saveOk))]

UtilsSetConfirmation(sid, email_id) ==
    /\ LET returns(r) == sessions' = r.sessions /\ session_files' = r.files
       IN  returns(utils_set_confirmation(sessions, session_files, sid, email_id, TRUE, now))
    /\ call' = [op |-> "set_confirmation", session_id |-> sid, hours |-> 0]
    /\ UNCHANGED <<conn, connection_pool, tools, categories, cache, cache_expiry,
                   loggerBound, roles_permissions, store, now, pc, gatewayCalls, result>>

UtilsGetSession(sid) ==
    /\ LET returns(r) == sessions' = r.sessions /\ session_files' = r.files
       IN  returns(utils_get_session(sessions, session_files, sid, now))
    /\ call' = [op |-> "get_session", session_id |-> sid, hours |-> 0]
    /\ UNCHANGED <<conn, connection_pool, tools, categories, cache, cache_expiry,
                   loggerBound, roles_permissions, store, now, pc, gatewayCalls, result>>

UtilsCleanupOldSessions(hours, saveOk, listOk) ==
    /\ LET returns(r) == sessions' = r.sessions /\ session_files' = r.files
       IN  returns(utils_cleanup_old_sessions(sessions, session_files, hours, now,
                                              saveOk, listOk))
    /\ call' = [op |-> "cleanup_old_sessions", session_id |-> None, hours |-> hours]
    /\ UNCHANGED <<conn, connection_pool, tools, categories, cache, cache_expiry,
                   loggerBound, roles_permissions, store, now, pc, gatewayCalls, result>>

\* A restart of the process: the map of a new SessionManager is empty, the
\* snapshot directory is what it was.
UtilsRestart ==
    /\ sessions # EmptyDict
    /\ sessions' = EmptyDict
    /\ call' = [op |-> "restart", session_id |-> None, hours |-> 0]
    /\ UNCHANGED <<session_files, conn, connection_pool, tools, categories, cache,
                   cache_expiry, loggerBound, roles_permissions, store, now, pc,
                   gatewayCalls, result>>

SnapshotNext ==
    \/ SessionTick
    \/ \E sid \in SessionIds, e \in EmailIds : UtilsSetConfirmation(sid, e)
    \/ \E sid \in SessionIds : UtilsGetSession(sid)
    \/ \E hours \in TimeoutChoices, saveOk \in BOOLEAN, listOk \in BOOLEAN :
           UtilsCleanupOldSessions(hours, saveOk, listOk)
    \/ UtilsRestart

SnapshotSpec == Init /\ [][SnapshotNext]_vars

(***************************************************************************)
(* database_service.py: connections and the class-level pool               *)
(***************************************************************************)
\* pool_size, the maxconn of SimpleConnectionPool.
PoolSize == 2

\* What the body of an operation does once it holds a connection.
BodyOutcomes == {"ok", "exec_fail", "rollback_fail"}

\* _initialize_connection_pool: every failure is caught and logged, the
\* class variable stays None.
initialize_connection_pool(pool, poolOk) ==
    IF poolOk THEN [exists |-> TRUE, used |-> 0] ELSE pool

\* DatabaseService.__init__ up to _ensure_table: only a direct instance
\* initialises the pool, and only while the class variable is None.
init_pool(pool, i, poolOk) ==
    IF i = "direct" /\ ~pool.exists THEN initialize_connection_pool(pool, poolOk) ELSE pool

\* _get_direct_connection: getconn() of the pool if there is one (PoolError
\* when every connection is in use), else psycopg2.connect; any exception
\* gives None.
get_direct_connection(pool, ok) ==
    IF ~ok THEN [conn |-> "none", pool |-> pool]
    ELSE IF pool.exists
      THEN IF pool.used < PoolSize
             THEN [conn |-> "pooled", pool |-> [pool EXCEPT !.used = @ + 1]]
             ELSE [conn |-> "none", pool |-> pool]
      ELSE [conn |-> "own", pool |-> pool]

\* _get_mcp_connection: psycopg2.connect on the MCP string; on any exception
\* the direct path is tried.
get_mcp_connection(pool, mcpOk, ok) ==
    IF mcpOk THEN [conn |-> "own", pool |-> pool] ELSE get_direct_connection(pool, ok)

get_connection(pool, i, mcpOk, ok) ==
    IF i = "mcp" THEN get_mcp_connection(pool, mcpOk, ok) ELSE get_direct_connection(pool, ok)

\* connect: self.conn = self._get_connection(); True iff it is not None.
connect(c, pool, i, mcpOk, ok) ==
    LET got(g) == [conn |-> [c EXCEPT ![i] = g.conn], pool |-> g.pool, ret |-> g.conn # "none"]
    IN  got(get_connection(pool, i, mcpOk, ok))

\* disconnect without the final self.conn = None.
disconnect_keeps_conn(c, pool, i) ==
    IF c[i] = "none" THEN [conn |-> c, pool |-> pool]
    ELSE IF i = "direct" /\ pool.exists
      THEN [conn |-> c, pool |-> [pool EXCEPT !.used = @ - 1]]
      ELSE [conn |-> c, pool |-> pool]

\* disconnect: putconn for an instance with use_mcp false while the pool
\* exists, conn.close() otherwise; then self.conn = None.
disconnect(c, pool, i) ==
    IF c[i] = "none" THEN [conn |-> c, pool |-> pool]
    ELSE IF i = "direct" /\ pool.exists
      THEN [conn |-> [c EXCEPT ![i] = "none"], pool |-> [pool EXCEPT !.used = @ - 1]]
      ELSE [conn |-> [c EXCEPT ![i] = "none"], pool |-> pool]

\* The frame every operation puts round its body:
\*   if not self.connect(): return ...
\*   try: ... except: ... finally: self.disconnect()
\* acquired is the connection the body ran on; outcome is what the
\* operation met ("connect_fail" when connect returned False).
with_connection(c, pool, i, mcpOk, ok, body) ==
    LET opened(k) ==
            IF ~k.ret
              THEN [conn |-> k.conn, pool |-> k.pool, acquired |-> "none",
                    outcome |-> "connect_fail"]
              ELSE LET closed(d) == [conn |-> d.conn, pool |-> d.pool,
                                     acquired |-> k.conn[i], outcome |-> body]
                   IN  closed(disconnect(k.conn, k.pool, i))
    IN  opened(connect(c, pool, i, mcpOk, ok))

\* An operation refused by its permission check: no connection is asked for.
denied(c, pool) == [conn |-> c, pool |-> pool, acquired |-> "none", outcome |-> "denied"]

\* _ensure_table: "true", "false" or "raise" (rollback() raised in the handler).
ensure_table_ret(outcome) ==
    IF outcome = "ok" THEN "true" ELSE IF outcome = "rollback_fail" THEN "raise" ELSE "false"

\* DatabaseService(use_mcp = (i = "mcp")): the pool, then _ensure_table for
\* a direct instance; an MCP instance opens nothing.
NewDatabaseService(i, poolOk, mcpOk, ok, body) ==
    LET built(p) ==
            LET done(w) ==
                    /\ conn' = w.conn
                    /\ connection_pool' = w.pool
                    /\ call' = [op |-> "DatabaseService", instance |-> i, user_id |-> default_user,
                                acquired |-> w.acquired, outcome |-> w.outcome,
                                ret |-> IF w.outcome = "connect_fail" THEN "false"
                                        ELSE ensure_table_ret(w.outcome),
                                used_before |-> connection_pool.used]
            IN  IF i = "direct"
                  THEN done(with_connection(conn, p, i, mcpOk, ok, body))
                  ELSE done([conn |-> conn, pool |-> p, acquired |-> "none", outcome |-> "ok"])
    IN  /\ built(init_pool(connection_pool, i, poolOk))
        /\ UNCHANGED <<session_files, tools, categories, cache, cache_expiry, loggerBound,
                       roles_permissions, sessions, store, now, pc, gatewayCalls, result>>

\* insert_financial_email on instance i for user_id.
Upsert(i, user_id, email_data, mcpOk, ok, body) ==
    LET done(w) ==
            LET stored(r) ==
                    /\ store' = r.store
                    /\ call' = [op |-> "insert_financial_email", instance |-> i,
                                user_id |-> user_id, acquired |-> w.acquired,
                                outcome |-> w.outcome, ret |-> r.ret,
                                used_before |-> connection_pool.used]
            IN  /\ conn' = w.conn
                /\ connection_pool' = w.pool
                /\ stored(insert_financial_email(roles_permissions, user_id, store, email_data,
                                                 IF w.outcome = "denied" THEN "ok" ELSE w.outcome))
    IN  /\ done(IF check_user_permission(roles_permissions, user_id, "modify_data")
                  THEN with_connection(conn, connection_pool, i, mcpOk, ok, body)
                  ELSE denied(conn, connection_pool))
        /\ UNCHANGED <<session_files, tools, categories, cache, cache_expiry, loggerBound,
                       roles_permissions, sessions, now, pc, gatewayCalls, result>>

\* get_financial_emails (op "list") and get_summary_stats (op "summary") on
\* instance i for user_id: ret is the number of rows read, [] and {} being 0.
Read(op, i, user_id, mcpOk, ok, body) ==
    LET done(w) ==
            /\ conn' = w.conn
            /\ connection_pool' = w.pool
            /\ call' = [op |-> op, instance |-> i, user_id |-> user_id,
                        acquired |-> w.acquired, outcome |-> w.outcome,
                        ret |-> IF w.outcome = "ok" THEN "rows" ELSE "empty",
                        used_before |-> connection_pool.used]
    IN  /\ body # "rollback_fail"
        /\ done(IF check_user_permission(roles_permissions, user_id, "access_financial_data")
                  THEN with_connection(conn, connection_pool, i, mcpOk, ok, body)
                  ELSE denied(conn, connection_pool))
        /\ UNCHANGED <<session_files, tools, categories, cache, cache_expiry, loggerBound,
                       roles_permissions, sessions, store, now, pc, gatewayCalls, result>>

GetFinancialEmails(i, user_id, mcpOk, ok, body) == Read("list", i, user_id, mcpOk, ok, body)

GetSummaryStats(i, user_id, mcpOk, ok, body) == Read("summary", i, user_id, mcpOk, ok, body)

\* What the servers answer to psycopg2.connect / getconn during one
\* operation: <<the MCP string, the direct path>>; a direct instance never
\* asks for the first.
ConnectInputs(i) ==
    IF i = "direct" THEN {<<TRUE, TRUE>>, <<TRUE, FALSE>>}
                    ELSE {<<TRUE, TRUE>>, <<FALSE, TRUE>>, <<FALSE, FALSE>>}

\* The users and the records of the operations: one user without and one
\* with modify_data in the default table, one record per email_id.
ConnectionUsers == {default_user, <<"admin_", "7">>}
ConnectionRecords == {r \in UpsertRecords : ~malformed(r) /\ r.financial_info.amount = 100}

ConnectionNext ==
    \/ \E i \in Instances, poolOk \in BOOLEAN, body \in BodyOutcomes :
         \E k \in ConnectInputs(i) : NewDatabaseService(i, poolOk, k[1], k[2], body)
    \/ \E i \in Instances, user_id \in ConnectionUsers, email_data \in ConnectionRecords, body \in BodyOutcomes :
         \E k \in ConnectInputs(i) : Upsert(i, user_id, email_data, k[1], k[2], body)
    \/ \E i \in Instances, user_id \in ConnectionUsers, body \in BodyOutcomes :
         \E k \in ConnectInputs(i) : GetFinancialEmails(i, user_id, k[1], k[2], body)
    \/ \E i \in Instances, user_id \in ConnectionUsers, body \in BodyOutcomes :
         \E k \in ConnectInputs(i) : GetSummaryStats(i, user_id, k[1], k[2], body)

ConnectionSpec == Init /\ [][ConnectionNext]_vars

(***************************************************************************)
(* tool_manager.py                                                         *)
(***************************************************************************)
\* The number of register_tool calls of one behaviour.
MaxRegistrations == 3

ToolNames == {"process_emails", "query_emails"}
ToolCategories == {"email", "database"}

\* ToolInfo(name, version, description, category, func, enabled).
ToolInfo(name, category, enabled) ==
    [name |-> name, category |-> category, enabled |-> enabled]

\* register_tool: self.tools[name] is replaced, and name is appended to the
\* list of category whether or not a list already holds it.  Returns True.
register_tool(ts, cs, name, category, enabled) ==
    [tools      |-> DictSet(ts, name, ToolInfo(name, category, enabled)),
     categories |-> DictSet(cs, category, Append(DictGet(cs, category, <<>>), name)),
     ret        |-> TRUE]

\* enable_tool / disable_tool: False for a name that is not registered.
set_enabled(ts, name, enabled) ==
    IF name \in DOMAIN ts
      THEN [tools |-> [ts EXCEPT ![name].enabled = enabled], ret |-> TRUE]
      ELSE [tools |-> ts, ret |-> FALSE]

enable_tool(ts, name) == set_enabled(ts, name, TRUE)

disable_tool(ts, name) == set_enabled(ts, name, FALSE)

\* get_tools_by_category: the ToolInfo of every entry of the category's
\* list that is a registered name.
get_tools_by_category(ts, cs, category) ==
    LET registered(name) == name \in DOMAIN ts
        infos(tool_names) == [k \in 1..Len(tool_names) |-> ts[tool_names[k]]]
    IN  infos(SelectSeq(DictGet(cs, category, <<>>), registered))

\* get_tool_statistics.
get_tool_statistics(ts, cs) ==
    [total_tools       |-> Cardinality(DOMAIN ts),
     enabled_tools     |-> Cardinality({n \in DOMAIN ts : ts[n].enabled}),
     disabled_tools    |-> Cardinality(DOMAIN ts) - Cardinality({n \in DOMAIN ts : ts[n].enabled}),
     categories        |-> Cardinality(DOMAIN cs),
     tools_by_category |-> [cat \in DOMAIN cs |-> Len(cs[cat])]]

\* The register_tool calls made so far: each appends one entry to one list.
RECURSIVE SumOver(_, _)
SumOver(f, keys) ==
    IF keys = {} THEN 0
    ELSE LET k == CHOOSE x \in keys : TRUE
         IN  f[k] + SumOver(f, keys \ {k})

Registrations(cs) == SumOver([cat \in DOMAIN cs |-> Len(cs[cat])], DOMAIN cs)

RegisterTool(name, category, enabled) ==
    /\ Registrations(categories) < MaxRegistrations
    /\ LET done(r) ==
               /\ tools' = r.tools
               /\ categories' = r.categories
               /\ call' = [op |-> "register_tool", name |-> name, category |-> category,
                           ret |-> r.ret]
       IN  done(register_tool(tools, categories, name, category, enabled))
    /\ UNCHANGED <<session_files, conn, connection_pool, cache, cache_expiry, loggerBound,
                   roles_permissions, sessions, store, now, pc, gatewayCalls, result>>

EnableTool(name) ==
    /\ LET done(r) ==
               /\ tools' = r.tools
               /\ call' = [op |-> "enable_tool", name |-> name, category |-> None, ret |-> r.ret]
       IN  done(enable_tool(tools, name))
    /\ UNCHANGED <<session_files, conn, connection_pool, categories, cache, cache_expiry,
                   loggerBound, roles_permissions, sessions, store, now, pc, gatewayCalls, result>>

DisableTool(name) ==
    /\ LET done(r) ==
               /\ tools' = r.tools
               /\ call' = [op |-> "disable_tool", name |-> name, category |-> None, ret |-> r.ret]
       IN  done(disable_tool(tools, name))
    /\ UNCHANGED <<session_files, conn, connection_pool, categories, cache, cache_expiry,
                   loggerBound, roles_permissions, sessions, store, now, pc, gatewayCalls, result>>

RegistryNext ==
    \/ \E name \in ToolNames, category \in ToolCategories, enabled \in BOOLEAN :
           RegisterTool(name, category, enabled)
    \/ \E name \in ToolNames : EnableTool(name)
    \/ \E name \in ToolNames : DisableTool(name)

RegistrySpec == Init /\ [][RegistryNext]_vars

(***************************************************************************)
(* customer_support.py / database_service.py: the read API                 *)
(***************************************************************************)
\* Values of the columns document_type and status ("due" and "paid" stand
\* for the status strings of the extraction).
DocumentTypes == {"invoice", "order"}
Statuses == {"due", "paid"}

\* The tables the upserts can have left: row k is that of message
\* Mailbox[k] (email_id is UNIQUE), with any document_type and status, and
\* processed_at values that differ from row to row (each statement takes
\* its own CURRENT_TIMESTAMP).
TablesOf(n) ==
    {[k \in 1..n |-> [email_id |-> Mailbox[k], document_type |-> cols[k][1], status |-> cols[k][2],
                      processed_at |-> at[k]]] :
        cols \in [1..n -> DocumentTypes \X Statuses],
        at \in {f \in [1..n -> 1..n] : \A a, b \in 1..n : a # b => f[a] # f[b]}}

QueryTables == UNION {TablesOf(n) : n \in 0..Len(Mailbox)}

\* ORDER BY processed_at DESC
order_by_processed_at_desc(rows) ==
    SortSeq(rows, LAMBDA a, b : a.processed_at > b.processed_at)

\* LIMIT %s
limit_rows(rows, limit) ==
    IF limit < Len(rows) THEN SubSeq(rows, 1, limit) ELSE rows

\* What the database does to one read.
ReadOutcomes == {"ok", "connect_fail", "exec_fail"}

\* get_financial_emails(limit): [] without access_financial_data, without
\* a connection, and when the statement fails (a negative LIMIT is an
\* error of the statement); else SELECT * ... ORDER BY processed_at DESC
\* LIMIT limit.
get_financial_emails(table, user_id, rows, limit, outcome) ==
    IF ~check_user_permission(table, user_id, "access_financial_data") THEN <<>>
    ELSE IF outcome # "ok" \/ limit < 0 THEN <<>>
    ELSE limit_rows(order_by_processed_at_desc(rows), limit)

\* query_financial_emails: the WHERE clause built from document_type and
\* status goes into a local string that is never executed; the rows are
\* those of db_service.get_financial_emails(limit).
query_financial_emails(table, rows, limit, document_type, status, user_id, ctor, outcome) ==
    IF DatabaseService_init(ctor) = "raise"
      THEN tool_boundary([status |-> "raised", count |-> 0, emails |-> <<>>])
      ELSE LET listed(emails) ==
                   tool_boundary([status |-> "success", count |-> Len(emails),
                                  emails |-> emails])
           IN  listed(get_financial_emails(table, user_id, rows, limit, outcome))

QueryInit ==
    /\ loggerBound = TRUE
    /\ roles_permissions = default_permissions
    /\ sessions = EmptyDict
    /\ store \in QueryTables
    /\ now = 0
    /\ pc = Idle
    /\ gatewayCalls = <<>>
    /\ result = NoResult
    /\ cache = EmptyDict
    /\ cache_expiry = EmptyDict
    /\ call = NoCall
    /\ session_files = EmptyDict
    /\ conn = NoConnections
    /\ connection_pool = NoPool
    /\ tools = EmptyDict
    /\ categories = EmptyDict

\* One call of the tool query_financial_emails; None is an omitted filter.
QueryFinancialEmails(limit, document_type, status, user_id, ctor, outcome) ==
    /\ LET done(r) ==
               call' = [op |-> "query_financial_emails", limit |-> limit,
                        document_type |-> document_type, filter_status |-> status,
                        status |-> r.status, count |-> r.count, emails |-> r.emails]
       IN  done(query_financial_emails(roles_permissions, store, limit, document_type,
                                       status, user_id, ctor, outcome))
    /\ UNCHANGED <<session_files, conn, connection_pool, tools, categories, cache,
                   cache_expiry, loggerBound, roles_permissions, sessions, store, now, pc,
                   gatewayCalls, result>>

QueryNext ==
    \E limit \in -1..Len(Mailbox), document_type \in DocumentTypes \cup {None},
       status \in Statuses \cup {None}, ctor \in EnsureOutcomes, outcome \in ReadOutcomes :
        QueryFinancialEmails(limit, document_type, status, default_user, ctor, outcome)

QuerySpec == QueryInit /\ [][QueryNext]_vars

(***************************************************************************)
(* Properties                                                              *)
(***************************************************************************)
\* A step of confirm_and_save_session on session sid.
IsSave(sid) ==
    \E i \in SaveInputs(sid) : ConfirmAndSaveSession(sid, i.ctor, i.outcomes)

\* The candidate with a given id is confirmed in a session record.
IsConfirmed(session, id) == DictGet(session.confirmation_status, id, FALSE)

\* The ids of the candidates of a session record that are confirmed.
ConfirmedIndexes(session) ==
    {j \in 1..Len(session.processed_emails) :
        IsConfirmed(session, session.processed_emails[j].id)}

\* C1: every record the last save handed to the gateway is a candidate of
\* its session whose id is a key of confirmation_status with value true; a
\* record whose id is absent or was last confirmed false is not among them.
C1_SaveForwardsOnlyConfirmed ==
    \A i \in 1..Len(gatewayCalls) :
        LET r == gatewayCalls[i]
            s == sessions[result.session_id]
        IN  /\ result.op = "save"
            /\ \E j \in 1..Len(s.processed_emails) : s.processed_emails[j] = r
            /\ r.id \in DOMAIN s.confirmation_status
            /\ s.confirmation_status[r.id] = TRUE

\* C1 witness: a save forwarded one of two candidates and left out the one
\* whose latest confirm call was confirmed=false.
C1_Witness ==
    /\ result.op = "save"
    /\ Len(gatewayCalls) = 1
    /\ LET s == sessions[result.session_id]
       IN  /\ Len(s.processed_emails) = 2
           /\ \E j \in 1..2 :
                 /\ s.processed_emails[j].id \in DOMAIN s.confirmation_status
                 /\ s.confirmation_status[s.processed_emails[j].id] = FALSE
                 /\ s.processed_emails[j].id # gatewayCalls[1].id

\* C2: on a session whose candidates are exactly A and B with only A
\* confirmed, a save that meets a healthy database returns saved_count = 1
\* and total_confirmed = 1, row A is in the store, and B is neither
\* confirmed nor stored.
C2_SaveOfOneConfirmed ==
    [][\A sid \in DOMAIN sessions :
          ( /\ Len(sessions[sid].processed_emails) = 2
            /\ sessions[sid].processed_emails[1].id = "A"
            /\ sessions[sid].processed_emails[2].id = "B"
            /\ sessions[sid].confirmation_status = [k \in {"A"} |-> TRUE]
            /\ ConfirmAndSaveSession(sid, "ok", <<"ok">>) )
          => /\ result'.status = "success"
             /\ result'.saved_count = 1
             /\ result'.total_confirmed = 1
             /\ "A" \in stored_ids(store')
             /\ "B" \notin stored_ids(store')
             /\ ~IsConfirmed(sessions'[sid], "B")]_vars

\* C3: a save on a session that has candidates but no confirmed one returns
\* "no_data", changes no field of any session, and hands nothing to the
\* gateway.
C3_SaveWithoutConfirmedIsNoData ==
    [][\A sid \in DOMAIN sessions :
          ( /\ sessions[sid].processed_emails # <<>>
            /\ ConfirmedIndexes(sessions[sid]) = {}
            /\ IsSave(sid) )
          => /\ result'.status = "no_data"
             /\ sessions' = sessions
             /\ gatewayCalls' = <<>>
             /\ store' = store]_vars

\* C4: a save on a session with at least one confirmed candidate moves the
\* session to completed whatever the upserts do, and reports saved_count and
\* total_confirmed with 0 <= saved_count <= total_confirmed.
C4_SaveAlwaysCompletes ==
    [][\A sid \in DOMAIN sessions :
          ( /\ ConfirmedIndexes(sessions[sid]) # {}
            /\ IsSave(sid) )
          => /\ sessions'[sid].current_state = "completed"
             /\ result'.status = "success"
             /\ result'.total_confirmed = Cardinality(ConfirmedIndexes(sessions[sid]))
             /\ 0 <= result'.saved_count
             /\ result'.saved_count <= result'.total_confirmed]_vars

\* C5: a record that a save forwards carries, for every field modified
\* through confirm, the latest modified value, and up to that save request
\* the candidate held in the session still had the extracted value of the
\* field.
C5_OverlayOnlyInForwardedRecord ==
    [][\A sid \in DOMAIN sessions :
          IsSave(sid) =>
            \A i \in 1..Len(gatewayCalls') :
              LET r  == gatewayCalls'[i]
                  md == sessions[sid].modified_data
              IN  r.id \in DOMAIN md =>
                    \A f \in DOMAIN md[r.id] :
                      /\ r.financial_info[f] = md[r.id][f]
                      /\ \A j \in 1..Len(sessions[sid].processed_emails) :
                            sessions[sid].processed_emails[j].id = r.id =>
                              sessions[sid].processed_emails[j].financial_info[f]
                                = ExtractedInfo(r.id)[f]]_vars

\* C6: the candidate records held in a session always have the field values
\* the extraction pass produced.
C6_CandidatesKeepExtractedValues ==
    \A sid \in DOMAIN sessions :
        \A j \in 1..Len(sessions[sid].processed_emails) :
            sessions[sid].processed_emails[j].financial_info
              = ExtractedInfo(sessions[sid].processed_emails[j].id)

\* The state of a session, idle for one not yet referenced.
StateOf(ss, sid) == IF sid \in DOMAIN ss THEN ss[sid].current_state ELSE "idle"

\* C7: every change of a session's state is idle->processing,
\* processing->review, processing->completed, review->completed, any->error,
\* or any->processing at the start of a process request; a save changes it
\* only from review to completed, a confirm call never, and error is left
\* only by a new process request.
C7_StateEdges ==
    [][\A sid \in SessionIds :
          LET a == StateOf(sessions, sid)
              b == StateOf(sessions', sid)
          IN  a # b =>
                /\ \/ <<a, b>> \in {<<"idle", "processing">>, <<"processing", "review">>,
                                    <<"processing", "completed">>, <<"review", "completed">>}
                   \/ b = "error"
                   \/ b = "processing" /\ pc.step = "idle" /\ pc'.step = "authenticate"
                /\ IsSave(sid) => (a = "review" /\ b = "completed")
                /\ result'.op # "confirm"
                /\ a = "error" => (b = "processing" /\ pc'.step = "authenticate")]_vars

\* C8: once a process request has returned or failed the session is in
\* review (a pass with candidates), completed (a pass without) or error (any
\* failure), and no session is in state processing while no request runs.
C8_ProcessEndsInReviewCompletedOrError ==
    \A sid \in DOMAIN sessions :
        pc.step = "idle" =>
          /\ sessions[sid].current_state # "processing"
          /\ (result.op = "process" /\ result.session_id = sid) =>
                \/ sessions[sid].current_state = "review" /\ result.found # <<>>
                \/ sessions[sid].current_state = "completed" /\ result.found = <<>>
                                                             /\ result.status = "no_emails"
                \/ sessions[sid].current_state = "error"

\* C9: when authentication fails, or the search fails, the session goes to
\* error and the request returns an error result (it neither raises nor ends
\* completed with "no_emails").
C9_UpstreamFailureGivesError ==
    [][( \/ pc.step = "authenticate" /\ ProcessAuthenticate("ok", FALSE)
         \/ pc.step = "search" /\ \E o \in SearchOutcomes :
                                     o.kind # "found" /\ ProcessSearch(o) )
       => /\ sessions'[pc.session_id].current_state = "error"
          /\ result'.status = "error"]_vars

\* C10: after a process request that completed, the session's candidates
\* are exactly the list that pass extracted.
C10_CandidatesAreTheLastPass ==
    \A sid \in DOMAIN sessions :
        ( /\ pc.step = "idle"
          /\ result.op = "process"
          /\ result.session_id = sid
          /\ result.status \in {"success", "no_emails"} )
        => sessions[sid].processed_emails = result.found

\* The candidates of a session record that carry a given id.
CandidatesWithId(session, id) ==
    {j \in 1..Len(session.processed_emails) : session.processed_emails[j].id = id}

\* The value a modifications dict gives a field.
ModValueOf(items, f) ==
    LET i == CHOOSE i \in 1..Len(items) : items[i][1] = f IN items[i][2]

\* C11: in every step the previous modification_history of a session is a
\* prefix of the new one, and a confirm call appends exactly one entry per
\* field of its modifications that exists on the candidate with that id,
\* carrying the id, the field, the candidate's value as old_value and the
\* given value as new_value (and appends nothing otherwise).
C11_HistoryAppendOnly ==
    [][\A sid \in DOMAIN sessions :
          LET h     == sessions[sid].modification_history
              h2    == sessions'[sid].modification_history
              added == SubSeq(h2, Len(h) + 1, Len(h2))
          IN  /\ Len(h2) >= Len(h)
              /\ SubSeq(h2, 1, Len(h)) = h
              /\ \A e \in EmailIds, c \in BOOLEAN, m \in ModificationInputs :
                    ( /\ result'.op = "confirm"
                      /\ DictGet(sessions'[sid].confirmation_status, e, ~c) = c
                      /\ ConfirmEmailDataWithin(sid, e, c, m, MaxLog) ) =>
                      LET js     == CandidatesWithId(sessions[sid], e)
                          fields == IF js = {} \/ ~m.given THEN {}
                                    ELSE {m.items[i][1] : i \in 1..Len(m.items)}
                                           \cap DOMAIN ExtractedInfo(e)
                      IN  /\ Len(added) = Cardinality(fields)
                          /\ \A f \in fields :
                                \E k \in 1..Len(added) :
                                   /\ added[k].email_id = e
                                   /\ added[k].field = f
                                   /\ \A j \in js :
                                         added[k].old_value
                                           = sessions[sid].processed_emails[j].financial_info[f]
                                   /\ added[k].new_value = ModValueOf(m.items, f)
              /\ (result'.op # "confirm") => h2 = h]_vars

\* C11 witness: a confirm call has appended a second entry behind an earlier
\* one, the new entry recording the field's old and new value.
C11_Witness ==
    /\ result.op = "confirm"
    /\ LET h == sessions[result.session_id].modification_history
       IN  /\ Len(h) = 2
           /\ h[1].new_value = 500
           /\ h[2].field = "amount"
           /\ h[2].old_value = 100
           /\ h[2].new_value = 700

\* C12: a confirm call whose id is not the id of a candidate of the session,
\* or whose modifications name a field the record does not have, returns an
\* error result and not a success result.
C12_ConfirmRejectsUnknownIdOrField ==
    [][\A sid \in SessionIds, e \in EmailIds, c \in BOOLEAN, m \in ModificationInputs :
          ( /\ ConfirmEmailData(sid, e, c, m)
            /\ \/ sid \notin DOMAIN sessions
               \/ CandidatesWithId(sessions[sid], e) = {}
               \/ \E i \in 1..Len(m.items) : m.items[i][1] \notin DOMAIN ExtractedInfo(e) )
          => /\ result'.status = "error"
             /\ result'.status # "success"]_vars

\* C13: whatever an orchestrator operation meets (process-emails,
\* process-interactive, confirm, save, summarize, analyze), what it hands
\* back is a payload tagged success or error: no fault leaves the operation.
C13_NoFaultCrossesTheBoundary ==
    /\ result.status # "raised"
    /\ result.status \in {"none", "success", "error"}

\* C13 witness: a summarize request whose database constructor raised has
\* returned an error payload.
C13_Witness ==
    /\ result.op = "get_financial_email_summary"
    /\ result.status = "error"

\* C20: a rate request whose two codes are equal when compared without
\* regard to case returns exactly 1, contacts no rate source, and neither
\* reads nor writes the cache.
C20_SameCurrencyRateIsOne ==
    [][( /\ now' = now
         /\ call'.op = "get_exchange_rate"
         /\ upper(call'.from_currency) = upper(call'.to_currency)
         /\ GetExchangeRate(call'.from_currency, call'.to_currency,
                            call'.api1, call'.api2) )
       => /\ call'.ret = Scale
          /\ call'.contacted = <<>>
          /\ ~call'.cache_read
          /\ cache' = cache
          /\ cache_expiry' = cache_expiry]_vars

\* C20 witness: with rates already cached, a request for usd -> USD (codes
\* that differ in case only) has returned 1 without any source.
C20_Witness ==
    /\ call.op = "get_exchange_rate"
    /\ call.from_currency # call.to_currency
    /\ upper(call.from_currency) = upper(call.to_currency)
    /\ call.ret = Scale
    /\ call.contacted = <<>>
    /\ DOMAIN cache # {}

\* A call of the extraction pipeline or of the rule-based extractor that
\* has returned a record.
ExtractedRecord ==
    /\ call.op \in {"extract_financial_info", "extract_with_rules"}
    /\ call.done
    /\ ~call.ret.is_none

\* C14: in every extracted record that has an amount, from the rule-based
\* path and from the LLM path, a currency of USD goes with
\* usd_amount = amount and exchange_rate = 1, and a currency other than USD
\* whose conversion failed goes with usd_amount and exchange_rate both None.
C14_CurrencyNormalization ==
    ExtractedRecord =>
      LET r == call.ret
      IN  /\ (r.amount # NoneNum /\ TruthyStr(r.currency) /\ upper(r.currency) = USD)
                => (r.usd_amount = r.amount /\ r.exchange_rate = Scale)
          /\ (TruthyStr(r.currency) /\ upper(r.currency) # USD /\ call.failed > 0)
                => (r.usd_amount = NoneNum /\ r.exchange_rate = NoneNum)

\* C15: when the model call raises, analyze_email_with_llm does not raise
\* and returns a result with a fallback analysis_method and confidence at
\* most 0.3, and the pipeline then returns what the rule-based extractor
\* returns.
C15_LlmFailureFallsBack ==
    /\ (call.op = "analyze_email_with_llm" /\ call.done /\ call.llm_raised)
          => /\ ~call.raised
             /\ call.ret.analysis_method \in {"rule_based", "simple_rule_based"}
             /\ call.ret.confidence <= 3
    /\ (call.op = "extract_financial_info" /\ call.done /\ call.llm_raised)
          => (call.ret.is_none \/ call.ret.analysis_method = "rule_based")

\* Something of a body or subject that the rule-based extractor looks for:
\* an amount, a status phrase, a counterparty, a date.
Extractable(subject, body) ==
    \/ \E i \in 1..Len(body) : body[i].kind \in {"amount", "status", "address", "due_date"}
    \/ Len(subject) >= 2

\* C16: for an email that passed the gate the rule-based extractor returns
\* None exactly when no amount, status phrase, counterparty or date pattern
\* matched.
C16_RulesReturnNoneIffNothingFound ==
    (call.op = "extract_with_rules" /\ call.done)
      => (call.ret.is_none <=> ~Extractable(call.subject, call.body))

\* C17: for a subject in which no keyword occurs, in whatever case, the
\* pipeline returns None and invokes neither the LLM nor the currency client.
C17_GateReturnsNone ==
    ( /\ call.op = "extract_financial_info"
      /\ call.done
      /\ \A k \in 1..Len(financial_keywords) :
            LET kw  == financial_keywords[k]
                sub == Join(call.subject)
            IN  \A i \in 1..Len(sub) :
                   i + Len(kw) - 1 <= Len(sub)
                     => upper(SubSeq(sub, i, i + Len(kw) - 1)) # upper(kw) )
      => /\ call.ret.is_none
         /\ ~call.llm_invoked
         /\ call.conversions = 0
         /\ cache = EmptyDict

\* C17 witness: the pipeline has returned None for a subject of two words
\* without a keyword and a body that holds an amount.
C17_Witness ==
    /\ call.op = "extract_financial_info"
    /\ call.done
    /\ Len(call.subject) = 2
    /\ ~passes_gate(call.subject)
    /\ \E i \in 1..Len(call.body) : call.body[i].kind = "amount"
    /\ call.ret.is_none
    /\ ~call.llm_invoked

\* The place in the log of the last upsert of id that returned true, 0 if none.
LastUpsert(log, id) ==
    LET oks == {k \in 1..Len(log) :
                   log[k].ret = "true" /\ log[k].email_data.id = id}
    IN  IF oks = {} THEN 0 ELSE CHOOSE k \in oks : \A j \in oks : j <= k

\* C18: after any sequence of upserts the table holds at most one row per
\* email_id, none for an id that no upsert succeeded for, and otherwise
\* the row of the last upsert of that id that returned true.
C18_UpsertIdempotent ==
    /\ \A i \in 1..Len(store), j \in 1..Len(store) :
          store[i].email_id = store[j].email_id => i = j
    /\ \A id \in EmailIds :
          IF LastUpsert(gatewayCalls, id) = 0
            THEN id \notin stored_ids(store)
            ELSE \E i \in 1..Len(store) :
                    store[i] = Row(gatewayCalls[LastUpsert(gatewayCalls, id)].email_data)

\* C18 witness: the same record was upserted twice, both upserts returned
\* true, and the table holds one row.
C18_Witness ==
    /\ Len(gatewayCalls) = 2
    /\ gatewayCalls[1] = gatewayCalls[2]
    /\ gatewayCalls[1].ret = "true"
    /\ Len(store) = 1

\* C19: an upsert returns true or false, never raises, and a batch visits
\* every record of its list and returns the number of upserts that
\* returned true.
C19_UpsertNeverRaises ==
    call.op \in {"insert_financial_email", "save_to_database"}
      => /\ Len(call.rets) = Len(call.data)
         /\ \A k \in 1..Len(call.rets) : call.rets[k] \in {"true", "false"}
         /\ call.op = "save_to_database"
               => /\ call.ret = "int"
                  /\ call.success_count
                       = Cardinality({k \in 1..Len(call.rets) : call.rets[k] = "true"})

\* C21: a cleanup with timeout hours leaves no session that was inactive
\* for longer than hours, neither in the map nor in the snapshot directory,
\* and keeps in the map every session that was active within hours.
C21_CleanupEvictsExpired ==
    [][(call'.op = "cleanup_old_sessions" /\ now' = now)
         => \A sid \in DOMAIN sessions :
               IF inactive_longer_than(sessions[sid], call'.hours, now)
                 THEN sid \notin DOMAIN sessions' /\ sid \notin DOMAIN session_files'
                 ELSE sid \in DOMAIN sessions' /\ sessions'[sid] = sessions[sid]]_vars

\* C29: get_session on a session whose inactivity exceeds the timeout
\* returns a new idle session without candidates, confirmations or
\* modifications.
C29_ExpiredSessionIsNotRevived ==
    [][( /\ call'.op = "get_session"
         /\ now' = now
         /\ call'.session_id \in DOMAIN sessions
         /\ inactive_longer_than(sessions[call'.session_id], DefaultTimeout, now) )
         => sessions'[call'.session_id] = SessionState(now)]_vars

\* The sources of get_exchange_rate in the order of the code.
SourceOrder == <<"exchangerate_api", "frankfurter_api", "fallback_rates">>

\* What the sources answer to one call, in that order: NoneNum is a failure.
SourceAnswers(c) ==
    <<try_api(c.api1), try_api(c.api2), try_fallback_rates(c.from_currency, c.to_currency)>>

\* The place in SourceOrder of the first source that answers, 0 if none does.
FirstAnswer(c) ==
    IF \A k \in 1..3 : SourceAnswers(c)[k] = NoneNum THEN 0
    ELSE CHOOSE k \in 1..3 :
           /\ SourceAnswers(c)[k] # NoneNum
           /\ \A j \in 1..(k - 1) : SourceAnswers(c)[j] = NoneNum

\* C23: a call with from # to returns an unexpired cache entry without
\* contacting a source; otherwise it tries the sources in the fixed order,
\* each once, up to the first that answers, returns that answer and caches
\* it for one hour; when all three fail it returns None and leaves the cache.
C23_TieredFallback ==
    [][( /\ call'.op = "get_exchange_rate"
         /\ now' = now
         /\ upper(call'.from_currency) # upper(call'.to_currency)
         /\ GetExchangeRate(call'.from_currency, call'.to_currency,
                            call'.api1, call'.api2) )
         => LET key == <<call'.from_currency, call'.to_currency>>
                hit == /\ key \in DOMAIN cache
                       /\ key \in DOMAIN cache_expiry
                       /\ now < cache_expiry[key]
                k   == FirstAnswer(call')
            IN  IF hit
                  THEN /\ call'.ret = cache[key]
                       /\ call'.contacted = <<>>
                       /\ cache' = cache /\ cache_expiry' = cache_expiry
                ELSE IF k = 0
                  THEN /\ call'.ret = NoneNum
                       /\ call'.contacted = SourceOrder
                       /\ cache' = cache /\ cache_expiry' = cache_expiry
                  ELSE /\ call'.ret = SourceAnswers(call')[k]
                       /\ call'.contacted = SubSeq(SourceOrder, 1, k)
                       /\ cache' = DictSet(cache, key, call'.ret)
                       /\ cache_expiry' = DictSet(cache_expiry, key, now + Hour)]_vars

\* C23 witness: both live sources failed, the static table answered, and
\* the answer is in the cache with an expiry in the future.
C23_Witness ==
    /\ call.op = "get_exchange_rate"
    /\ call.contacted = SourceOrder
    /\ call.ret = fallback_rates[EUR]
    /\ <<call.from_currency, call.to_currency>> \in DOMAIN cache
    /\ cache[<<call.from_currency, call.to_currency>>] = call.ret
    /\ cache_expiry[<<call.from_currency, call.to_currency>>] > now

\* C28: a live source whose answer has no entry for the target currency
\* counts as a failure: the next source is tried, and the rate returned
\* for from # to is one that a source supplied for the pair.
C28_AbsentTargetIsFailure ==
    ( /\ call.op = "get_exchange_rate"
      /\ upper(call.from_currency) # upper(call.to_currency)
      /\ call.contacted # <<>> )
      => /\ call.api1.kind = "absent" => Len(call.contacted) >= 2
         /\ (Len(call.contacted) >= 2 /\ call.api2.kind = "absent")
               => Len(call.contacted) = 3

\* C25: an upsert changes the table only for a user_id whose role holds
\* modify_data, and otherwise returns false; under the default table the
\* roles that hold it are those of the admin_ and system_ prefixes, and a
\* save through the service of default_user stores nothing and counts 0.
C25_WriteNeedsModifyData ==
    [][(call'.op \in {"insert_financial_email", "save_to_database"} /\ call' # call)
         => LET permitted ==
                    has_permission(roles_permissions, get_user_role(call'.user_id),
                                   "modify_data")
            IN  /\ store' # store => permitted
                /\ ~permitted => /\ \A k \in 1..Len(call'.rets) : call'.rets[k] = "false"
                                 /\ store' = store
                                 /\ call'.op = "save_to_database" => call'.success_count = 0
                /\ roles_permissions = default_permissions
                      => (permitted <=> call'.user_id[1] \in {"admin_", "system_"})]_vars

\* C25 witness: under the default table the service of default_user was
\* handed a well-formed record and a healthy database, returned false and
\* left the table empty, after the same record was stored for an admin_ id.
C25_Witness ==
    /\ roles_permissions = default_permissions
    /\ call.op = "insert_financial_email"
    /\ call.user_id = default_user
    /\ call.outcomes = <<"ok">>
    /\ ~malformed(call.data[1])
    /\ call.ret = "false"
    /\ Len(gatewayCalls) = 2
    /\ gatewayCalls[1].ret = "true"
    /\ Len(store) = 1

\* The operations a DatabaseService performs on a connection.
DatabaseOperations == {"DatabaseService", "insert_financial_email", "list", "summary"}

\* C24: after ensure-table, an upsert, a list or the summary statistics has
\* returned, whether it succeeded, failed, raised or was denied, no instance
\* holds a connection: self.conn is None, and an operation that was denied
\* or could not connect acquired none.
C24_ConnectionReleased ==
    call.op \in DatabaseOperations
      => /\ \A i \in Instances : conn[i] = "none"
         /\ call.outcome \in {"denied", "connect_fail"} => call.acquired = "none"

\* C24 witness: an upsert on a pooled connection met a failing statement and
\* a failing rollback, raised, and left self.conn None.
C24_Witness ==
    /\ call.op = "insert_financial_email"
    /\ call.acquired = "pooled"
    /\ call.outcome = "rollback_fail"
    /\ call.ret = "raise"
    /\ conn = NoConnections

\* C27: between operations no connection of the shared pool is checked out.
C27_PoolConnectionsReturned ==
    connection_pool.exists => connection_pool.used = 0

\* The number of entries of the category lists that are name.
Listed(cs, name) ==
    SumOver([cat \in DOMAIN cs |->
                Cardinality({k \in 1..Len(cs[cat]) : cs[cat][k] = name})], DOMAIN cs)

\* C30: every registered name is listed exactly once, in the list of the
\* category of its ToolInfo, so the tools_by_category counts of
\* get_tool_statistics add up to total_tools.
C30_CategoryListsPartitionTools ==
    /\ \A name \in DOMAIN tools :
          /\ Listed(categories, name) = 1
          /\ \E k \in 1..Len(get_tools_by_category(tools, categories, tools[name].category)) :
                get_tools_by_category(tools, categories, tools[name].category)[k].name = name
    /\ LET counted(stats) ==
               SumOver(stats.tools_by_category, DOMAIN stats.tools_by_category)
                  = stats.total_tools
       IN  counted(get_tool_statistics(tools, categories))

\* A row passes the filters that were supplied.
matches(row, document_type, status) ==
    /\ document_type # None => row.document_type = document_type
    /\ status # None => row.status = status

\* C22: a successful query returns at most limit rows, most recently
\* processed first, each of them matching every supplied filter.
C22_QueryHonoursFilters ==
    (call.op = "query_financial_emails" /\ call.status = "success")
      => /\ call.limit >= 0 => Len(call.emails) <= call.limit
         /\ \A k \in 1..Len(call.emails) - 1 :
               call.emails[k].processed_at > call.emails[k + 1].processed_at
         /\ \A k \in 1..Len(call.emails) :
               matches(call.emails[k], call.document_type, call.filter_status)

====
